---- MODULE Spec2Model ----
(***************************************************************************)
(* Model of the biometric load balancer (biometric_load_balancer.py):      *)
(* BiometricLoadForecaster, LoadBalancingRecommender and the driver        *)
(* run_load_balancer_analysis (specification Spec), and of the             *)
(* MobilitySignalIndexEngine of mobility_signal_index_analysis.py          *)
(* (specifications SpecMSI, the engine run from its data, and SpecWaves,   *)
(* detect_wave_patterns on tables of msi_results).                         *)
(*                                                                         *)
(* Numbers.  The program computes in IEEE doubles; the model computes in   *)
(* exact rationals [num, den] (den > 0, lowest terms), and NaN is the      *)
(* pair 0/0.  spike_risk is a square root (std / mean): the model keeps    *)
(* its square, field spike_risk_sq, which orders and caps the same way     *)
(* (x <= y <=> x^2 <= y^2 and min(x, 2)^2 = min(x^2, 4) for x, y >= 0).    *)
(*                                                                         *)
(* Tables.  A DataFrame is a sequence of rows in the frame's row order.    *)
(* bio_df is kept grouped: one entry per (state, district, pincode) key    *)
(* in the sorted order groupby iterates in, holding that key's records.    *)
(***************************************************************************)
EXTENDS Integers, Sequences, FiniteSets, TLC

(* ------------------------------ bounds -------------------------------- *)

\* Number of (state, district, pincode) units in the loaded data.
NUnits == 8
\* Number of units whose history differs from the base history.
MaxHot == 2
\* Largest top_n_overloaded passed to find_alternatives.
MaxTopN == 2
\* Largest alternatives_per_pincode passed to find_alternatives.
MaxAlt == 2

(* ---------------------------- rationals ------------------------------- *)

RECURSIVE Gcd(_, _)
Gcd(a, b) == IF b = 0 THEN a ELSE Gcd(b, a % b)

Abs(x) == IF x < 0 THEN -x ELSE x

NaN == [num |-> 0, den |-> 0]

IsNaN(x) == x.den = 0

\* The rational n/d in lowest terms with a positive denominator (d # 0).
Rat(n, d) ==
    LET g == Gcd(Abs(n), Abs(d))
        s == IF d < 0 THEN -1 ELSE 1
    IN  [num |-> (s * n) \div g, den |-> (s * d) \div g]

FromInt(n) == [num |-> n, den |-> 1]

\* The operations reduce before they multiply, to keep the intermediate
\* numbers small.
RAdd(x, y) ==
    IF IsNaN(x) \/ IsNaN(y) THEN NaN
    ELSE LET g == Gcd(x.den, y.den)
         IN  Rat(x.num * (y.den \div g) + y.num * (x.den \div g),
                 (x.den \div g) * y.den)

RSub(x, y) ==
    IF IsNaN(x) \/ IsNaN(y) THEN NaN
    ELSE LET g == Gcd(x.den, y.den)
         IN  Rat(x.num * (y.den \div g) - y.num * (x.den \div g),
                 (x.den \div g) * y.den)

RMul(x, y) ==
    IF IsNaN(x) \/ IsNaN(y) THEN NaN
    ELSE IF x.num = 0 \/ y.num = 0 THEN [num |-> 0, den |-> 1]
    ELSE LET g == Gcd(Abs(x.num), y.den)
             h == Gcd(Abs(y.num), x.den)
         IN  Rat((x.num \div g) * (y.num \div h), (x.den \div h) * (y.den \div g))

\* x / y for y # 0.
RDiv(x, y) ==
    IF IsNaN(x) \/ IsNaN(y) THEN NaN
    ELSE RMul(x, [num |-> IF y.num < 0 THEN -y.den ELSE y.den, den |-> Abs(y.num)])

\* Comparisons: every comparison with NaN is false, as in IEEE arithmetic.
RLt(x, y) == ~IsNaN(x) /\ ~IsNaN(y) /\ x.num * y.den < y.num * x.den
RLe(x, y) == ~IsNaN(x) /\ ~IsNaN(y) /\ x.num * y.den <= y.num * x.den
RGt(x, y) == RLt(y, x)
RGe(x, y) == RLe(y, x)
REq(x, y) == ~IsNaN(x) /\ ~IsNaN(y) /\ x.num * y.den = y.num * x.den

\* Python's builtin max(a, b) / min(a, b): the first argument unless the
\* second is strictly greater / smaller, so a NaN first argument is kept.
PyMax(a, b) == IF RGt(b, a) THEN b ELSE a
PyMin(a, b) == IF RLt(b, a) THEN b ELSE a

(* ------------------------- sequence helpers --------------------------- *)

RECURSIVE SumInts(_)
SumInts(s) == IF s = << >> THEN 0 ELSE Head(s) + SumInts(Tail(s))

RECURSIVE SumRats(_)
SumRats(s) == IF s = << >> THEN FromInt(0) ELSE RAdd(Head(s), SumRats(Tail(s)))

RECURSIVE MaxInts(_)
MaxInts(s) ==
    IF Len(s) = 1 THEN s[1]
    ELSE LET m == MaxInts(Tail(s)) IN IF s[1] >= m THEN s[1] ELSE m

MinOfSet(S) == CHOOSE x \in S : \A y \in S : x <= y

RECURSIVE SortedInts(_)
SortedInts(S) ==
    IF S = {} THEN << >>
    ELSE LET m == MinOfSet(S) IN <<m>> \o SortedInts(S \ {m})

\* s.head(n) and s.tail(n) of a frame or series.
HeadN(s, n) == SubSeq(s, 1, IF n < Len(s) THEN n ELSE Len(s))
TailN(s, n) == SubSeq(s, IF Len(s) - n + 1 > 1 THEN Len(s) - n + 1 ELSE 1, Len(s))

(* --------------------------- the input data --------------------------- *)

\* The grouping keys of the data, in the sorted order in which
\* groupby(['state', 'district', 'pincode']) yields them.  pincode is the
\* number its 6-digit zero-padded string denotes, so pincode[:4] is
\* pincode \div 100.  Rows 2 and 4 carry the same pincode in two districts;
\* rows 1 and 2-3 carry the same district name in two states.
Directory ==
    << [state |-> "Assam",  district |-> "North", pincode |-> 781001],
       [state |-> "Delhi",  district |-> "North", pincode |-> 110001],
       [state |-> "Delhi",  district |-> "North", pincode |-> 110002],
       [state |-> "Delhi",  district |-> "South", pincode |-> 110001],
       [state |-> "Delhi",  district |-> "South", pincode |-> 110003],
       [state |-> "Delhi",  district |-> "South", pincode |-> 110004],
       [state |-> "Delhi",  district |-> "South", pincode |-> 110101],
       [state |-> "Kerala", district |-> "East",  pincode |-> 682001],
       [state |-> "Kerala", district |-> "East",  pincode |-> 682002],
       [state |-> "Kerala", district |-> "East",  pincode |-> 682101] >>

Units == 1 .. NUnits

\* One CSV record of a unit: its month and the two age-band counts.
Rec(m, a, b) == [year_month |-> m, bio_age_5_17 |-> a, bio_age_17_ |-> b]

\* The base data: every unit has two equal records in one month, the units
\* of QuietUnits smaller ones.
QuietUnits == {1, 3, 7}

BaseHistory(u) ==
    IF u \in QuietUnits THEN << Rec(1, 1, 0), Rec(1, 0, 1) >>
    ELSE << Rec(1, 1, 1), Rec(1, 2, 0) >>

\* The histories a unit may have instead: a single record; two volatile
\* months; three months, rising; four months, falling.
HotHistories ==
    { << Rec(1, 3, 2) >>,
      << Rec(1, 0, 0), Rec(2, 3, 3) >>,
      << Rec(1, 0, 0), Rec(2, 1, 1), Rec(3, 3, 1) >>,
      << Rec(1, 3, 3), Rec(2, 1, 1), Rec(3, 1, 0), Rec(4, 0, 1) >> }

\* The CSV contents load_data may find: per unit, its records.  They are the
\* base data with the history of at most MaxHot units replaced.
Datasets ==
    UNION { { [u \in Units |-> IF u \in hot THEN h[u] ELSE BaseHistory(u)] :
              h \in [hot -> HotHistories] } :
            hot \in { S \in SUBSET Units : Cardinality(S) <= MaxHot } }

\* The redirect percentage lists simulate_load_balancing is called with;
\* the last is the default of the signature.
PercentageLists == { <<0>>, <<30, 10, 30>>, <<10, 15, 20, 25, 30>> }

None == "None"

(* ------------------------------- state -------------------------------- *)

VARIABLES
    pc,                 \* position in run_load_balancer_analysis
    bio_df,             \* forecaster.bio_df
    district_monthly,   \* forecaster.district_monthly
    pincode_monthly,    \* forecaster.pincode_monthly
    district_forecast,  \* forecaster.district_forecast
    pincode_forecast,   \* forecaster.pincode_forecast
    load_scores,        \* forecaster.load_scores
    rec_load_scores,    \* recommender.load_scores
    recommendations,    \* recommender.recommendations
    simulation_results, \* recommender.simulation_results
    call                \* arguments of the last find_alternatives call

vars == << pc, bio_df, district_monthly, pincode_monthly, district_forecast,
           pincode_forecast, load_scores, rec_load_scores, recommendations,
           simulation_results, call >>

\* The MobilitySignalIndexEngine of mobility_signal_index_analysis.py.
VARIABLES
    epc,                \* position in run_msi_analysis
    data,               \* engine.data
    district_neighbors, \* engine.district_neighbors
    pincode_neighbors,  \* engine.pincode_neighbors
    temporal_pivot,     \* engine.temporal_pivot
    temporal_changes,   \* engine.temporal_changes
    temporal_zscores,   \* engine.temporal_zscores
    msi_results,        \* engine.msi_results
    wave_patterns,      \* engine.wave_patterns
    ecall               \* arguments of the engine calls made so far

engine_vars == << epc, data, district_neighbors, pincode_neighbors, temporal_pivot,
                  temporal_changes, temporal_zscores, msi_results, wave_patterns,
                  ecall >>

all_vars == << vars, engine_vars >>

(* ------------------- BiometricLoadForecaster: helpers ------------------ *)

RECURSIVE Flatten(_)
Flatten(ss) == IF ss = << >> THEN << >> ELSE Head(ss) \o Flatten(Tail(ss))

\* load_data, per record: total_bio = bio_age_5_17 + bio_age_17_; year_month
\* is the record's calendar month.
BioRow(r) ==
    [year_month |-> r.year_month, total_bio |-> r.bio_age_5_17 + r.bio_age_17_]

\* The frame load_data builds from the CSV contents.
LoadedFrame(csv) ==
    [u \in Units |->
        [state    |-> Directory[u].state,
         district |-> Directory[u].district,
         pincode  |-> Directory[u].pincode,
         records  |-> [i \in 1 .. Len(csv[u]) |-> BioRow(csv[u][i])]]]

\* group['total_bio'] as a sequence.
Totals(records) == [i \in 1 .. Len(records) |-> records[i].total_bio]

MonthsOf(records) ==
    SortedInts({records[i].year_month : i \in 1 .. Len(records)})

InMonth(records, m) ==
    LET Is(r) == r.year_month = m IN SelectSeq(records, Is)

\* group.groupby('year_month')['total_bio'].sum(): one total per month
\* present in the group, in month order.
Monthly(records) ==
    LET months == MonthsOf(records)
    IN  [k \in 1 .. Len(months) |-> SumInts(Totals(InMonth(records, months[k])))]

\* Series.mean() of a non-empty integer series.
Mean(s) == Rat(SumInts(s), Len(s))

Squares(s) == [i \in 1 .. Len(s) |-> s[i] * s[i]]

\* Series.std() squared: the sample variance (ddof = 1), NaN for a series
\* of fewer than two values.
StdSq(s) ==
    LET n == Len(s)
    IN  IF n < 2 THEN NaN
        ELSE Rat(n * SumInts(Squares(s)) - SumInts(s) * SumInts(s), n * (n - 1))

\* Variant of the trend that compares the last month with the first,
\* whatever the number of months.
TrendLastOverFirst(monthly, w) ==
    IF Len(monthly) >= 1
    THEN LET recent == FromInt(monthly[Len(monthly)])
             early  == FromInt(monthly[1])
         IN  RDiv(RSub(recent, early), PyMax(early, FromInt(1)))
    ELSE FromInt(0)

\* The trend of a monthly series over a window of w months (3 for a district,
\* 2 for a pincode): (recent_avg - early_avg) / max(early_avg, 1), or 0 when
\* the series has fewer than w months.
Trend(monthly, w) ==
    IF Len(monthly) >= w
    THEN LET recent_avg == Mean(TailN(monthly, w))
             early_avg  == Mean(HeadN(monthly, w))
         IN  RDiv(RSub(recent_avg, early_avg), PyMax(early_avg, FromInt(1)))
    ELSE FromInt(0)

\* monthly['total_bio'].iloc[-1] if len(monthly) > 0 else 0
LastMonthLoad(monthly) == IF Len(monthly) > 0 THEN monthly[Len(monthly)] ELSE 0

\* Variant of the forecast with the trend not damped.
ForecastUndamped(last_month_load, trend) ==
    RMul(FromInt(last_month_load), RAdd(FromInt(1), trend))

\* last_month_load * (1 + trend * 0.3)
Forecast(last_month_load, trend) ==
    RMul(FromInt(last_month_load), RAdd(FromInt(1), RMul(trend, Rat(3, 10))))

\* The square of group['total_bio'].std() / max(group['total_bio'].mean(), 1).
SpikeRiskSq(totals) ==
    LET d == PyMax(Mean(totals), FromInt(1))
    IN  RDiv(StdSq(totals), RMul(d, d))

\* min(spike_risk, 2), squared.
CappedSpikeRiskSq(totals) == PyMin(SpikeRiskSq(totals), FromInt(4))

\* The units of df that carry the first row of their (state, district), in
\* row order: one per district group, in groupby order.
DistrictLeaders(df) ==
    SortedInts({u \in DOMAIN df :
        \A v \in DOMAIN df :
            (df[v].state = df[u].state /\ df[v].district = df[u].district) => u <= v})

\* The records of the (state, district) group that unit u belongs to.
DistrictRecords(df, u) ==
    LET members == SortedInts({v \in DOMAIN df :
                        df[v].state = df[u].state /\ df[v].district = df[u].district})
    IN  Flatten([k \in 1 .. Len(members) |-> df[members[k]].records])

AllRecords(df) == Flatten([u \in 1 .. Len(df) |-> df[u].records])

\* One row of district_forecast (lines 138-168).
DistrictForecastRow(df, u) ==
    LET group   == DistrictRecords(df, u)
        monthly == Monthly(group)
        trend   == Trend(monthly, 3)
        last    == LastMonthLoad(monthly)
    IN  [state           |-> df[u].state,
         district        |-> df[u].district,
         last_month_load |-> last,
         trend           |-> trend,
         forecast_load   |-> Forecast(last, trend),
         spike_risk_sq   |-> CappedSpikeRiskSq(Totals(group)),
         historical_mean |-> Rat(SumInts(Totals(group)),
                                 IF Len(monthly) > 1 THEN Len(monthly) ELSE 1),
         historical_max  |-> IF Len(monthly) > 0 THEN MaxInts(monthly) ELSE 0]

\* One row of pincode_forecast (lines 174-198).
PincodeForecastRow(df, u) ==
    LET group   == df[u].records
        monthly == Monthly(group)
        trend   == Trend(monthly, 2)
        last    == LastMonthLoad(monthly)
    IN  [state           |-> df[u].state,
         district        |-> df[u].district,
         pincode         |-> df[u].pincode,
         last_month_load |-> last,
         trend           |-> trend,
         forecast_load   |-> Forecast(last, trend),
         spike_risk_sq   |-> CappedSpikeRiskSq(Totals(group)),
         historical_mean |-> IF Len(monthly) > 0 THEN Mean(monthly) ELSE FromInt(0),
         historical_max  |-> IF Len(monthly) > 0 THEN MaxInts(monthly) ELSE 0]

DistrictForecastFrame(df) ==
    LET leaders == DistrictLeaders(df)
    IN  [k \in 1 .. Len(leaders) |-> DistrictForecastRow(df, leaders[k])]

PincodeForecastFrame(df) == [u \in 1 .. Len(df) |-> PincodeForecastRow(df, u)]

\* district_monthly: one row per (year_month, state, district) with records.
DistrictMonthlyFrame(df) ==
    LET months  == MonthsOf(AllRecords(df))
        leaders == DistrictLeaders(df)
        Row(m, u) ==
            LET rs == InMonth(DistrictRecords(df, u), m)
            IN  IF rs = << >> THEN << >>
                ELSE << [year_month |-> m, state |-> df[u].state,
                         district |-> df[u].district,
                         total_bio |-> SumInts(Totals(rs))] >>
    IN  Flatten([i \in 1 .. Len(months) |->
            Flatten([k \in 1 .. Len(leaders) |-> Row(months[i], leaders[k])])])

\* pincode_monthly: one row per (year_month, state, district, pincode).
PincodeMonthlyFrame(df) ==
    LET months == MonthsOf(AllRecords(df))
        Row(m, u) ==
            LET rs == InMonth(df[u].records, m)
            IN  IF rs = << >> THEN << >>
                ELSE << [year_month |-> m, state |-> df[u].state,
                         district |-> df[u].district, pincode |-> df[u].pincode,
                         total_bio |-> SumInts(Totals(rs))] >>
    IN  Flatten([i \in 1 .. Len(months) |->
            Flatten([u \in 1 .. Len(df) |-> Row(months[i], u)])])

(* --------------------------- load scoring ----------------------------- *)

\* Variant of the rank with method='min': a tie group takes its lowest
\* position instead of the average of its positions.
RankPctMinMethod(s, i) ==
    IF IsNaN(s[i]) THEN NaN
    ELSE LET less  == Cardinality({j \in 1 .. Len(s) : RLt(s[j], s[i])})
             count == Cardinality({j \in 1 .. Len(s) : ~IsNaN(s[j])})
         IN  RDiv(FromInt(less + 1), FromInt(count))

\* Series.rank(pct=True) at position i of a series of rationals: the average
\* of the 1-based positions the value's tie group takes in sorted order,
\* divided by the number of non-NaN values; NaN for a NaN value.
RankPct(s, i) ==
    IF IsNaN(s[i]) THEN NaN
    ELSE LET less  == Cardinality({j \in 1 .. Len(s) : RLt(s[j], s[i])})
             eq    == Cardinality({j \in 1 .. Len(s) : REq(s[j], s[i])})
             count == Cardinality({j \in 1 .. Len(s) : ~IsNaN(s[j])})
             avg   == Rat(SumInts([k \in 1 .. eq |-> less + k]), eq)
         IN  RDiv(avg, FromInt(count))

\* The (load_percentile, rank of spike_risk) pairs, in lowest terms, at which
\* the double load_percentile * 0.7 + rank * 0.3 is the double just below a
\* bin edge (0.5, 0.75 or 0.9) although the exact sum is the edge; at every
\* other pair of ranks over at most 10 units whose exact sum is an edge the
\* double is the edge itself.
RoundsBelowEdge ==
    { <<4, 7, 1, 3>>, <<13, 20, 3, 20>>, <<2, 3, 1, 9>>, <<3, 4, 3, 4>>,
      <<11, 14, 2, 3>>, <<6, 7, 1, 1>>, <<1, 1, 2, 3>> }

\* A load score is the exact rational num/den and ulp: -1 when the double
\* is the one just below num/den, 0 otherwise.
NaNScore == [num |-> 0, den |-> 0, ulp |-> 0]

\* load_percentile * 0.7 + spike rank * 0.3
LoadScore(lp, sp) ==
    IF IsNaN(lp) \/ IsNaN(sp) THEN NaNScore
    ELSE LET x == RAdd(RMul(lp, Rat(7, 10)), RMul(sp, Rat(3, 10)))
         IN  [num |-> x.num, den |-> x.den,
              ulp |-> IF <<lp.num, lp.den, sp.num, sp.den>> \in RoundsBelowEdge
                      THEN -1 ELSE 0]

\* score >= e and score > e for a load score and a rational e.
ScoreGe(s, e) ==
    /\ ~IsNaN(s)
    /\ \/ s.num * e.den > e.num * s.den
       \/ s.num * e.den = e.num * s.den /\ s.ulp >= 0
ScoreGt(s, e) == ~IsNaN(s) /\ s.num * e.den > e.num * s.den
ScoreLe(s, e) == ~IsNaN(s) /\ ~ScoreGt(s, e)

\* a > b for two load scores.
ScoreGtScore(a, b) ==
    /\ ~IsNaN(a) /\ ~IsNaN(b)
    /\ \/ a.num * b.den > b.num * a.den
       \/ a.num * b.den = b.num * a.den /\ a.ulp > b.ulp

\* pd.cut(load_score, bins=[0, 0.5, 0.75, 0.9, 1.0], labels=[...]): the bins
\* are (0, 0.5], (0.5, 0.75], (0.75, 0.9], (0.9, 1.0]; NaN outside them.
LoadCategory(score) ==
    IF ScoreGt(score, FromInt(0)) /\ ScoreLe(score, Rat(1, 2)) THEN "Low"
    ELSE IF ScoreGt(score, Rat(1, 2)) /\ ScoreLe(score, Rat(3, 4)) THEN "Medium"
    ELSE IF ScoreGt(score, Rat(3, 4)) /\ ScoreLe(score, Rat(9, 10)) THEN "High"
    ELSE IF ScoreGt(score, Rat(9, 10)) /\ ScoreLe(score, FromInt(1)) THEN "Critical"
    ELSE "NaN"

\* Variants of the flag with the threshold at 0.95 and at 0.7.
IsOverloadedAbove95(score) == ScoreGe(score, Rat(95, 100))
IsOverloadedAbove70(score) == ScoreGe(score, Rat(7, 10))

\* df['load_score'] >= 0.9
IsOverloaded(score) == ScoreGe(score, Rat(9, 10))

\* Variant of the spare capacity that is the load percentile itself.
SpareCapacityNotComplemented(load_percentile) == load_percentile

\* 1 - df['load_percentile']
SpareCapacity(load_percentile) == RSub(FromInt(1), load_percentile)

\* The frame calculate_load_scores builds from pincode_forecast.
LoadScoresFrame(forecast) ==
    LET loads  == [i \in 1 .. Len(forecast) |-> forecast[i].forecast_load]
        spikes == [i \in 1 .. Len(forecast) |-> forecast[i].spike_risk_sq]
        Row(i) ==
            LET lp    == RankPct(loads, i)
                score == LoadScore(lp, RankPct(spikes, i))
            IN  forecast[i] @@
                [load_percentile |-> lp,
                 load_score      |-> score,
                 spare_capacity  |-> SpareCapacity(lp),
                 load_category   |-> LoadCategory(score),
                 is_overloaded   |-> IsOverloaded(score)]
    IN  [i \in 1 .. Len(forecast) |-> Row(i)]

(* --------------------- LoadBalancingRecommender ----------------------- *)

\* Variants of the two orderings that put the smallest value first.
BySpareCapacityAscending(a, b) == RLt(a.spare_capacity, b.spare_capacity)
ByLoadScoreAscending(a, b) == ScoreGtScore(b.load_score, a.load_score)

\* Row a's value is greater than row b's in column 'spare_capacity' /
\* 'load_score'.
BySpareCapacity(a, b) == RGt(a.spare_capacity, b.spare_capacity)
ByLoadScore(a, b) == ScoreGtScore(a.load_score, b.load_score)

Greater(a, b, column) ==
    IF column = "load_score" THEN ByLoadScore(a, b) ELSE BySpareCapacity(a, b)

\* frame.nlargest(n, column): the n rows with the largest values, largest
\* first, rows of equal value in frame order (keep='first'); no row for
\* n <= 0.
NLargest(rows, n, column) ==
    LET len    == Len(rows)
        Pos(i) == 1 + Cardinality({j \in 1 .. len :
                        \/ Greater(rows[j], rows[i], column)
                        \/ j < i /\ ~Greater(rows[i], rows[j], column)})
        sorted == [p \in 1 .. len |-> rows[CHOOSE i \in 1 .. len : Pos(i) = p]]
    IN  IF n <= 0 THEN << >> ELSE HeadN(sorted, n)

\* load_scores[is_overloaded].nlargest(top_n_overloaded, 'load_score')
Overloaded(scores, top_n) ==
    LET Flagged(r) == r.is_overloaded
    IN  NLargest(SelectSeq(scores, Flagged), top_n, "load_score")

\* Variant of Pass 1 that matches the district name alone.
SameDistrictAnyState(scores, row, k) ==
    LET Keep(r) == /\ r.district = row.district
                   /\ r.pincode # row.pincode
                   /\ RGt(r.spare_capacity, Rat(1, 2))
    IN  NLargest(SelectSeq(scores, Keep), k, "spare_capacity")

\* Pass 1 (lines 275-280): same district and state, another pincode, spare
\* capacity above 0.5; the k with most spare capacity.
SameDistrict(scores, row, k) ==
    LET Keep(r) == /\ r.district = row.district
                   /\ r.state = row.state
                   /\ r.pincode # row.pincode
                   /\ RGt(r.spare_capacity, Rat(1, 2))
    IN  NLargest(SelectSeq(scores, Keep), k, "spare_capacity")

\* pincode[:4] of the 6-digit string.
PinPrefix(pincode) == pincode \div 100

\* Variant of Pass 2 that does not exclude the source's pincode.
AdjacentWithSelf(scores, row, k) ==
    LET Keep(r) == /\ PinPrefix(r.pincode) = PinPrefix(row.pincode)
                   /\ RGt(r.spare_capacity, Rat(3, 10))
    IN  NLargest(SelectSeq(scores, Keep), k, "spare_capacity")

\* Pass 2 (lines 285-289): same 4-digit prefix, another pincode, spare
\* capacity above 0.3; the k with most spare capacity.
Adjacent(scores, row, k) ==
    LET Keep(r) == /\ PinPrefix(r.pincode) = PinPrefix(row.pincode)
                   /\ r.pincode # row.pincode
                   /\ RGt(r.spare_capacity, Rat(3, 10))
    IN  NLargest(SelectSeq(scores, Keep), k, "spare_capacity")

\* The candidate rows of one overloaded row (lines 275-290, and head(k)).
Candidates(scores, row, k) ==
    LET same_district == SameDistrict(scores, row, k)
    IN  HeadN(IF Len(same_district) < k
              THEN same_district \o Adjacent(scores, row, k - Len(same_district))
              ELSE same_district, k)

Alternative(alt) ==
    [alt_pincode    |-> alt.pincode,
     alt_district   |-> alt.district,
     spare_capacity |-> alt.spare_capacity,
     current_load   |-> alt.forecast_load]

\* One entry of recommendations (lines 270-310).
Recommendation(scores, row, k) ==
    LET cands        == Candidates(scores, row, k)
        alternatives == [i \in 1 .. Len(cands) |-> Alternative(cands[i])]
    IN  [pincode          |-> row.pincode,
         district         |-> row.district,
         state            |-> row.state,
         load_score       |-> row.load_score,
         forecast_load    |-> row.forecast_load,
         spike_risk_sq    |-> row.spike_risk_sq,
         alternatives     |-> alternatives,
         num_alternatives |-> Len(alternatives)]

\* Variant of the list that leaves out the units without an alternative.
RecommendationsWithPeers(scores, top_n, k) ==
    LET overloaded == Overloaded(scores, top_n)
        HasPeers(rec) == rec.num_alternatives > 0
    IN  SelectSeq([i \in 1 .. Len(overloaded) |->
                      Recommendation(scores, overloaded[i], k)], HasPeers)

\* The list find_alternatives(top_n, k) builds.
Recommendations(scores, top_n, k) ==
    LET overloaded == Overloaded(scores, top_n)
    IN  [i \in 1 .. Len(overloaded) |-> Recommendation(scores, overloaded[i], k)]

\* Variant of the redirected amount that is the share kept at the source.
RedirectAmountKept(original_load, pct) == RMul(original_load, Rat(100 - pct, 100))

\* redirect_amount = original_load * (pct / 100)
RedirectAmount(original_load, pct) == RMul(original_load, Rat(pct, 100))

\* Variant of the contribution that takes the redirected amount off every
\* recommendation, whether it has alternatives or not.
NewLoadAlwaysReduced(rec, pct) ==
    RSub(rec.forecast_load, RedirectAmount(rec.forecast_load, pct))

\* The contribution of one recommendation to total_new_peak (lines 337-345).
NewLoad(rec, pct) ==
    IF rec.alternatives # << >>
    THEN RSub(rec.forecast_load, RedirectAmount(rec.forecast_load, pct))
    ELSE rec.forecast_load

\* Its contribution to total_redirected.
Redirected(rec, pct) ==
    IF rec.alternatives # << >>
    THEN RedirectAmount(rec.forecast_load, pct)
    ELSE FromInt(0)

\* Variant of the reduction with the difference taken the other way round.
ReductionPctNewMinusOriginal(total_original_peak, total_new_peak) ==
    IF RGt(total_original_peak, FromInt(0))
    THEN RMul(RDiv(RSub(total_new_peak, total_original_peak), total_original_peak),
              FromInt(100))
    ELSE FromInt(0)

\* Variant of the reduction without the test of the original total.
ReductionPctUnguarded(total_original_peak, total_new_peak) ==
    RMul(RDiv(RSub(total_original_peak, total_new_peak), total_original_peak),
         FromInt(100))

\* reduction_pct (line 347)
ReductionPct(total_original_peak, total_new_peak) ==
    IF RGt(total_original_peak, FromInt(0))
    THEN RMul(RDiv(RSub(total_original_peak, total_new_peak), total_original_peak),
              FromInt(100))
    ELSE FromInt(0)

\* One row of simulation_results (lines 324-355).
Scenario(recs, pct) ==
    LET total_original_peak ==
            SumRats([i \in 1 .. Len(recs) |-> recs[i].forecast_load])
        total_new_peak ==
            SumRats([i \in 1 .. Len(recs) |-> NewLoad(recs[i], pct)])
        total_redirected ==
            SumRats([i \in 1 .. Len(recs) |-> Redirected(recs[i], pct)])
    IN  [redirect_percentage |-> pct,
         original_peak_load  |-> total_original_peak,
         new_peak_load       |-> total_new_peak,
         total_redirected    |-> total_redirected,
         peak_reduction_pct  |-> ReductionPct(total_original_peak, total_new_peak)]

\* Variant of the loop whose three totals are set to 0 once, before the first
\* percentage, and so run on from one scenario into the next.
SimulationsRunningTotals(recs, percentages) ==
    LET Upto(i, field) ==
            SumRats([j \in 1 .. i |-> Scenario(recs, percentages[j])[field]])
    IN  [i \in 1 .. Len(percentages) |->
            [redirect_percentage |-> percentages[i],
             original_peak_load  |-> Upto(i, "original_peak_load"),
             new_peak_load       |-> Upto(i, "new_peak_load"),
             total_redirected    |-> Upto(i, "total_redirected"),
             peak_reduction_pct  |-> ReductionPct(Upto(i, "original_peak_load"),
                                                  Upto(i, "new_peak_load"))]]

\* simulation_results: one row per percentage, in list order (lines 324-357).
Simulations(recs, percentages) ==
    [i \in 1 .. Len(percentages) |-> Scenario(recs, percentages[i])]

(* ------------------ run_load_balancer_analysis ------------------------ *)

\* The state before the first call; the analysis creates no
\* MobilitySignalIndexEngine.

Init ==
    /\ pc = "load_data"
    /\ bio_df = None
    /\ district_monthly = None
    /\ pincode_monthly = None
    /\ district_forecast = None
    /\ pincode_forecast = None
    /\ load_scores = None
    /\ rec_load_scores = None
    /\ recommendations = None
    /\ simulation_results = None
    /\ call = None
    /\ epc = None
    /\ data = None
    /\ district_neighbors = None
    /\ pincode_neighbors = None
    /\ temporal_pivot = None
    /\ temporal_changes = None
    /\ temporal_zscores = None
    /\ msi_results = None
    /\ wave_patterns = None
    /\ ecall = None

\* forecaster.load_data()
load_data ==
    /\ pc = "load_data"
    /\ \E csv \in Datasets : bio_df' = LoadedFrame(csv)
    /\ pc' = "compute_historical_stats"
    /\ UNCHANGED << district_monthly, pincode_monthly, district_forecast,
                    pincode_forecast, load_scores, rec_load_scores,
                    recommendations, simulation_results, call >>
    /\ UNCHANGED engine_vars

\* forecaster.compute_historical_stats()
compute_historical_stats ==
    /\ pc = "compute_historical_stats"
    /\ district_monthly' = DistrictMonthlyFrame(bio_df)
    /\ pincode_monthly' = PincodeMonthlyFrame(bio_df)
    /\ pc' = "forecast_next_month"
    /\ UNCHANGED << bio_df, district_forecast, pincode_forecast, load_scores,
                    rec_load_scores, recommendations, simulation_results, call >>
    /\ UNCHANGED engine_vars

\* forecaster.forecast_next_month()
forecast_next_month ==
    /\ pc = "forecast_next_month"
    /\ district_forecast' = DistrictForecastFrame(bio_df)
    /\ pincode_forecast' = PincodeForecastFrame(bio_df)
    /\ pc' = "calculate_load_scores"
    /\ UNCHANGED << bio_df, district_monthly, pincode_monthly, load_scores,
                    rec_load_scores, recommendations, simulation_results, call >>
    /\ UNCHANGED engine_vars

\* forecaster.calculate_load_scores()
calculate_load_scores ==
    /\ pc = "calculate_load_scores"
    /\ load_scores' = LoadScoresFrame(pincode_forecast)
    /\ pc' = "new_recommender"
    /\ UNCHANGED << bio_df, district_monthly, pincode_monthly, district_forecast,
                    pincode_forecast, rec_load_scores, recommendations,
                    simulation_results, call >>
    /\ UNCHANGED engine_vars

\* recommender = LoadBalancingRecommender(forecaster.load_scores)
new_recommender ==
    /\ pc = "new_recommender"
    /\ rec_load_scores' = load_scores
    /\ recommendations' = << >>
    /\ simulation_results' = None
    /\ pc' = "find_alternatives"
    /\ UNCHANGED << bio_df, district_monthly, pincode_monthly, district_forecast,
                    pincode_forecast, load_scores, call >>
    /\ UNCHANGED engine_vars

\* recommender.find_alternatives(top_n_overloaded, alternatives_per_pincode)
find_alternatives ==
    /\ pc = "find_alternatives"
    /\ \E top_n \in 0 .. MaxTopN, k \in 0 .. MaxAlt :
        /\ recommendations' = Recommendations(rec_load_scores, top_n, k)
        /\ call' = [top_n_overloaded |-> top_n, alternatives_per_pincode |-> k]
    /\ pc' = "simulate_load_balancing"
    /\ UNCHANGED << bio_df, district_monthly, pincode_monthly, district_forecast,
                    pincode_forecast, load_scores, rec_load_scores,
                    simulation_results >>
    /\ UNCHANGED engine_vars

\* recommender.simulate_load_balancing(redirect_percentages)
simulate_load_balancing ==
    /\ pc = "simulate_load_balancing"
    /\ \E percentages \in PercentageLists :
        simulation_results' = Simulations(recommendations, percentages)
    /\ pc' = "done"
    /\ UNCHANGED << bio_df, district_monthly, pincode_monthly, district_forecast,
                    pincode_forecast, load_scores, rec_load_scores,
                    recommendations, call >>
    /\ UNCHANGED engine_vars

Next ==
    \/ load_data
    \/ compute_historical_stats
    \/ forecast_next_month
    \/ calculate_load_scores
    \/ new_recommender
    \/ find_alternatives
    \/ simulate_load_balancing

Spec == Init /\ [][Next]_all_vars

(* --------------------- MobilitySignalIndexEngine ---------------------- *)
(* Numbers.  inverse_correlation, z_magnitude and msi_score are square     *)
(* roots of rationals; the model keeps x * |x|, the square with the sign   *)
(* of x (fields inverse_correlation_ssq, z_magnitude_sq, msi_score_ssq).   *)
(* x -> x * |x| keeps the order and the products: (xy)|xy| = x|x| * y|y|.  *)
(* Results are exact; a double that differs from the exact result by       *)
(* rounding only is identified with it.  Where rounding changes the branch *)
(* taken and the result by more than rounding (np.std of a window of equal *)
(* values that is not 0, StdResidue below), the model follows the doubles. *)

\* The (state, district, pincode) units of the combined activity data, in
\* sorted order.  States X and Y have three districts, state Z two.  The
\* pincodes of X have the same 4-digit prefix (A, B) or only the same 3-digit
\* prefix (C); those of Y have the 3-digit prefix one higher (D, E) or a
\* distant one (F).
EngineDirectory ==
    << [state |-> "X", district |-> "A", pincode |-> 110001],
       [state |-> "X", district |-> "B", pincode |-> 110002],
       [state |-> "X", district |-> "C", pincode |-> 110101],
       [state |-> "Y", district |-> "D", pincode |-> 111001],
       [state |-> "Y", district |-> "E", pincode |-> 111002],
       [state |-> "Y", district |-> "F", pincode |-> 120001],
       [state |-> "Z", district |-> "G", pincode |-> 130001],
       [state |-> "Z", district |-> "H", pincode |-> 130101] >>

\* total_activity of one unit per year_week: flat; a drop that stays; a
\* decline by a third per week; a swing; a decline by a quarter per week.
ActivitySeries ==
    { << 100, 100, 100, 100 >>,
      << 100, 100, 40, 40 >>,
      << 27, 18, 12, 8 >>,
      << 10, 20, 10, 20 >>,
      << 64, 48, 36, 27 >> }

\* The activity the engine may be given: the districts of state X each have
\* one of the series, those of the other states are flat.
EngineDatasets ==
    { [u \in 1 .. Len(EngineDirectory) |->
          IF EngineDirectory[u].state = "X" THEN a[u] ELSE << 100, 100, 100, 100 >>] :
      a \in [{u \in 1 .. Len(EngineDirectory) : EngineDirectory[u].state = "X"}
                -> ActivitySeries] }

\* pincode[:n] of the 6-digit string, as a number.
FirstDigits(pincode, n) ==
    IF n = 3 THEN pincode \div 1000 ELSE pincode \div 100

\* The combined frame (get_combined_activity): one row per year_week and
\* unit, ordered by year_week, then unit.
CombinedFrame(activity) ==
    LET weeks == 1 .. Len(activity[1])
        Row(t, u) ==
            [year_week      |-> t,
             state          |-> EngineDirectory[u].state,
             district       |-> EngineDirectory[u].district,
             pincode        |-> EngineDirectory[u].pincode,
             pin_region     |-> FirstDigits(EngineDirectory[u].pincode, 3),
             total_activity |-> activity[u][t]]
    IN  Flatten([t \in weeks |-> [u \in 1 .. Len(activity) |-> Row(t, u)]])

\* Series.unique(): the values in order of first appearance.
RECURSIVE Unique(_)
Unique(s) ==
    IF s = << >> THEN << >>
    ELSE LET rest == Unique(SubSeq(s, 1, Len(s) - 1))
             last == s[Len(s)]
         IN  IF \E i \in 1 .. Len(rest) : rest[i] = last THEN rest
             ELSE Append(rest, last)

\* data.groupby('state')['district'].unique() for one state.
StateDistricts(frame, state) ==
    LET In(r) == r.state = state
        rows  == SelectSeq(frame, In)
    IN  Unique([i \in 1 .. Len(rows) |-> rows[i].district])

\* The geo_key "state|district" is the pair << state, district >>.
GeoKey(state, district) == << state, district >>

\* Variant of the district graph in which a district is its own neighbor too.
DistrictNeighborsWithSelf(frame) ==
    LET keys == {GeoKey(frame[i].state, frame[i].district) : i \in 1 .. Len(frame)}
    IN  [k \in keys |->
            LET districts == StateDistricts(frame, k[1])
            IN  [i \in 1 .. Len(districts) |-> GeoKey(k[1], districts[i])]]

\* build_neighbor_graph('district') (lines 257-267): the other districts of
\* the same state, in order of first appearance.
DistrictNeighbors(frame) ==
    LET keys == {GeoKey(frame[i].state, frame[i].district) : i \in 1 .. Len(frame)}
    IN  [k \in keys |->
            LET districts == StateDistricts(frame, k[1])
                Other(d)  == d # k[2]
                others    == SelectSeq(districts, Other)
            IN  [i \in 1 .. Len(others) |-> GeoKey(k[1], others[i])]]

\* build_neighbor_graph('pincode') (lines 273-281): within the pincodes of
\* the pin's pin_region, those with the same 4-digit prefix or a 3-digit
\* prefix at most 1 away.
PincodeNeighborSet(frame, pin) ==
    LET region   == FirstDigits(pin, 3)
        pincodes == {frame[i].pincode : i \in {j \in 1 .. Len(frame) :
                                                    frame[j].pin_region = region}}
        same_region     == {q \in pincodes :
                                q # pin /\ FirstDigits(q, 4) = FirstDigits(pin, 4)}
        adjacent_region == {q \in pincodes :
                                q # pin /\ Abs(FirstDigits(q, 3) - FirstDigits(pin, 3)) <= 1}
    IN  same_region \cup adjacent_region

\* The lists a set may become under list(set(...)): its elements in any order.
ListsOf(S) ==
    {l \in [1 .. Cardinality(S) -> S] : \A i, j \in 1 .. Cardinality(S) : l[i] = l[j] => i = j}

\* The dicts over a set of pincodes that give each pincode one of the lists
\* of its neighbor set.
RECURSIVE PincodeGraphs(_, _)
PincodeGraphs(frame, pins) ==
    IF pins = {} THEN { << >> }
    ELSE LET q == CHOOSE q \in pins : TRUE
         IN  { g @@ (q :> l) : g \in PincodeGraphs(frame, pins \ {q}),
                               l \in ListsOf(PincodeNeighborSet(frame, q)) }

\* The dicts build_neighbor_graph('pincode') may leave in pincode_neighbors.
PincodeNeighbors(frame) ==
    PincodeGraphs(frame, {frame[i].pincode : i \in 1 .. Len(frame)})

\* The geo keys of a set in sorted order, which is the order of
\* EngineDirectory.
SortedKeys(keys) ==
    LET all   == Unique([u \in 1 .. Len(EngineDirectory) |->
                            GeoKey(EngineDirectory[u].state, EngineDirectory[u].district)])
        In(k) == k \in keys
    IN  SelectSeq(all, In)

\* x * |x| of a rational: its square with its sign.
SignedSquare(x) == IF IsNaN(x) THEN NaN ELSE Rat(x.num * Abs(x.num), x.den * x.den)

\* np.sign of a rational.
Sign(x) == IF x.num > 0 THEN 1 ELSE IF x.num < 0 THEN -1 ELSE 0

\* groupby([year_week, state, district]).sum() pivoted to year_week x
\* geo_key, missing cells 0 (lines 293-297).
Pivot(frame) ==
    LET index   == SortedInts({frame[i].year_week : i \in 1 .. Len(frame)})
        columns == SortedKeys({GeoKey(frame[i].state, frame[i].district) :
                                  i \in 1 .. Len(frame)})
        Cell(t, k) ==
            LET In(r) == r.year_week = t /\ GeoKey(r.state, r.district) = k
                rows  == SelectSeq(frame, In)
            IN  FromInt(SumInts([i \in 1 .. Len(rows) |-> rows[i].total_activity]))
    IN  [index   |-> index,
         columns |-> columns,
         values  |-> [i \in 1 .. Len(index) |->
                        [j \in 1 .. Len(columns) |-> Cell(index[i], columns[j])]]]

\* pivot.pct_change().replace([inf, -inf], nan).fillna(0) (line 300): the
\* first row, x/0 and 0/0 all become 0.
PctChange(pivot) ==
    LET v == pivot.values
        Change(i, j) ==
            IF i = 1 THEN FromInt(0)
            ELSE IF v[i - 1][j].num = 0 THEN FromInt(0)
            ELSE RSub(RDiv(v[i][j], v[i - 1][j]), FromInt(1))
    IN  [pivot EXCEPT !.values =
            [i \in 1 .. Len(pivot.index) |->
                [j \in 1 .. Len(pivot.columns) |-> Change(i, j)]]]

\* The mean of a sequence of rationals.
MeanRats(xs) == RDiv(SumRats(xs), FromInt(Len(xs)))

\* The sum of squared deviations from the mean.
SumSqDev(xs) ==
    LET m == MeanRats(xs)
    IN  SumRats([i \in 1 .. Len(xs) |-> RMul(RSub(xs[i], m), RSub(xs[i], m))])

\* Rolling z-scores (lines 303-305) as signed squares: rolling(window=4,
\* min_periods=1) mean and sample std, a std of 0 replaced by 1; the sample
\* std of a single value is NaN, so the first row is NaN.
ZScores(pivot) ==
    LET v == pivot.values
        Z(i, j) ==
            LET from == IF i > 4 THEN i - 3 ELSE 1
                xs   == [k \in 1 .. (i - from + 1) |-> v[from + k - 1][j]]
                dev  == RSub(v[i][j], MeanRats(xs))
                var  == IF Len(xs) = 1 THEN NaN
                        ELSE RDiv(SumSqDev(xs), FromInt(Len(xs) - 1))
            IN  IF IsNaN(var) THEN NaN
                ELSE IF var.num = 0 THEN SignedSquare(dev)
                ELSE RDiv(SignedSquare(dev), var)
    IN  [pivot EXCEPT !.values =
            [i \in 1 .. Len(pivot.index) |->
                [j \in 1 .. Len(pivot.columns) |-> Z(i, j)]]]

\* The largest window_size compute_msi is called with.
MaxWindow == 3

\* Windows of n equal values whose np.std is not 0 in double arithmetic:
\* the mean of n copies of the double nearest to value is not that double,
\* and sign is the sign of (double - mean).  -1/3 is the weekly change of
\* 27, 18, 12, 8 and -1/6 its mean with a flat neighbor; the other constant
\* windows of ActivitySeries (0, -1/4, -1/8, -7/24) have np.std exactly 0.
StdResidue ==
    { [value |-> Rat(-1, 3), n |-> 3, sign |-> -1],
      [value |-> Rat(-1, 6), n |-> 3, sign |-> -1] }

\* np.std(xs) > 0 (line 351).
StdPositive(xs) ==
    \/ SumSqDev(xs).num > 0
    \/ \E r \in StdResidue : r.value = xs[1] /\ r.n = Len(xs)

\* xs - mean(xs) up to a positive factor: exact for a window that is not
\* constant, the rounding residue (or 0) for a constant one.
Deviations(xs) ==
    IF SumSqDev(xs).num > 0
    THEN [i \in 1 .. Len(xs) |-> RSub(xs[i], MeanRats(xs))]
    ELSE IF \E r \in StdResidue : r.value = xs[1] /\ r.n = Len(xs)
         THEN LET r == CHOOSE r \in StdResidue : r.value = xs[1] /\ r.n = Len(xs)
              IN  [i \in 1 .. Len(xs) |-> FromInt(r.sign)]
         ELSE [i \in 1 .. Len(xs) |-> FromInt(0)]

\* np.corrcoef(xs, ys)[0, 1] as a signed square; NaN when a variance is 0.
Correlation(xs, ys) ==
    LET dx  == Deviations(xs)
        dy  == Deviations(ys)
        cxy == SumRats([i \in 1 .. Len(xs) |-> RMul(dx[i], dy[i])])
        cxx == SumRats([i \in 1 .. Len(xs) |-> RMul(dx[i], dx[i])])
        cyy == SumRats([i \in 1 .. Len(xs) |-> RMul(dy[i], dy[i])])
    IN  IF cxx.num = 0 \/ cyy.num = 0 THEN NaN
        ELSE RMul(RDiv(cxy, cxx), RDiv(Rat(Abs(cxy.num), cxy.den), cyy))

\* Variant of the inverse correlation without the two np.std tests.
InverseCorrelationUnguarded(loc_changes, neighbor_changes) ==
    IF Len(loc_changes) > 2
    THEN RSub(FromInt(0), Correlation(loc_changes, neighbor_changes))
    ELSE FromInt(0)

\* Variant of the inverse correlation that is the correlation itself.
InverseCorrelationNotNegated(loc_changes, neighbor_changes) ==
    IF /\ Len(loc_changes) > 2
       /\ StdPositive(loc_changes)
       /\ StdPositive(neighbor_changes)
    THEN Correlation(loc_changes, neighbor_changes)
    ELSE FromInt(0)

\* inverse_corr (lines 351-355) as a signed square.
InverseCorrelation(loc_changes, neighbor_changes) ==
    IF /\ Len(loc_changes) > 2
       /\ StdPositive(loc_changes)
       /\ StdPositive(neighbor_changes)
    THEN RSub(FromInt(0), Correlation(loc_changes, neighbor_changes))
    ELSE FromInt(0)

\* The position of a key in the columns of a frame.
ColumnOf(frame, k) == CHOOSE j \in 1 .. Len(frame.columns) : frame.columns[j] = k

\* One record of msi_records (lines 341-390) for the column loc and the row
\* i of the index.
MsiRecord(changes, zscores, pivot, valid_neighbors, window_size, loc, i) ==
    LET j  == ColumnOf(changes, loc)
        nb == [n \in 1 .. Len(valid_neighbors) |-> ColumnOf(changes, valid_neighbors[n])]
        NeighborMean(frame, row) ==
            MeanRats([n \in 1 .. Len(nb) |-> frame.values[row][nb[n]]])
        loc_changes      == [k \in 1 .. window_size + 1 |->
                                changes.values[i - window_size + k - 1][j]]
        neighbor_changes == [k \in 1 .. window_size + 1 |->
                                NeighborMean(changes, i - window_size + k - 1)]
        inverse_corr     == InverseCorrelation(loc_changes, neighbor_changes)
        loc_direction    == Sign(loc_changes[Len(loc_changes)])
        opposite_count   ==
            IF loc_direction # 0
            THEN Cardinality({n \in 1 .. Len(nb) :
                                 Sign(changes.values[i][nb[n]]) # loc_direction})
            ELSE 0
        spatial_spread   == Rat(opposite_count, Len(valid_neighbors))
        z                == zscores.values[i][j]
        z_magnitude      == IF IsNaN(z) THEN NaN ELSE Rat(Abs(z.num), z.den)
        factor           == RAdd(FromInt(1), spatial_spread)
    IN  [time_period             |-> changes.index[i],
         state                   |-> loc[1],
         district                |-> loc[2],
         geo_key                 |-> loc,
         msi_score_ssq           |->
             RDiv(RMul(RMul(inverse_corr, RMul(factor, factor)),
                       PyMin(z_magnitude, FromInt(9))),
                  FromInt(9)),
         inverse_correlation_ssq |-> inverse_corr,
         spatial_spread          |-> spatial_spread,
         z_magnitude_sq          |-> z_magnitude,
         activity_change_pct     |-> RMul(changes.values[i][j], FromInt(100)),
         neighbor_change_pct     |-> RMul(NeighborMean(changes, i), FromInt(100)),
         activity_level          |-> pivot.values[i][j],
         neighbor_activity       |-> NeighborMean(pivot, i),
         num_neighbors           |-> Len(valid_neighbors),
         neighbors_opposite      |-> opposite_count]

\* compute_msi (lines 327-392): for every column with at least two neighbors
\* among the columns, one record per row from window_size + 1 on.
MsiRecords(neighbors, changes, zscores, pivot, window_size) ==
    LET Valid(loc) ==
            LET ns    == IF loc \in DOMAIN neighbors THEN neighbors[loc] ELSE << >>
                In(n) == \E j \in 1 .. Len(changes.columns) : changes.columns[j] = n
            IN  SelectSeq(ns, In)
        OfLoc(loc) ==
            IF Len(Valid(loc)) < 2 \/ Len(changes.index) <= window_size THEN << >>
            ELSE [k \in 1 .. Len(changes.index) - window_size |->
                     MsiRecord(changes, zscores, pivot, Valid(loc), window_size,
                               loc, window_size + k)]
    IN  Flatten([j \in 1 .. Len(changes.columns) |-> OfLoc(changes.columns[j])])

\* Variant of the wave test that accepts a count that only stays level.
IsWaveAllowingFlat(total_affected, district_counts, min_spread) ==
    total_affected >= min_spread /\ MaxInts(district_counts) >= district_counts[1]

\* The wave test of line 445.
IsWave(total_affected, district_counts, min_spread) ==
    total_affected >= min_spread /\ MaxInts(district_counts) > district_counts[1]

\* Variant of the wave score that divides by the number of origin districts.
WaveScoreByOrigins(total_affected, peak_count, origin_count) ==
    Rat(total_affected * peak_count, origin_count)

\* wave_score (line 459).
WaveScore(total_affected, peak_count, origin_count) ==
    Rat(total_affected * peak_count, origin_count + 1)

\* Variant of the start times that takes every period of the state.
StartCountOfAll(periods, min_duration) == periods

\* The number of start times: the length of time_periods[:-min_duration]
\* (line 419) for a list of the given length.
StartCount(periods, min_duration) ==
    IF min_duration = 0 \/ min_duration >= periods THEN 0
    ELSE periods - min_duration

\* The waves of one state (lines 414-460), in order of start time.  The
\* lists made from sets (origin_districts, all_districts, the values of
\* spread_sequence) are kept as the sets.
StateWaves(high_msi, state, min_duration, min_spread) ==
    LET InState(r)   == r.state = state
        state_data   == SelectSeq(high_msi, InState)
        time_periods == SortedInts({state_data[i].time_period : i \in 1 .. Len(state_data)})
        Districts(t) == {state_data[i].district :
                            i \in {j \in 1 .. Len(state_data) : state_data[j].time_period = t}}
        starts       == StartCount(Len(time_periods), min_duration)
        Wave(s) ==
            LET last     == IF s + min_duration + 1 < Len(time_periods)
                            THEN s + min_duration + 1 ELSE Len(time_periods)
                tracked  == SubSeq(time_periods, s, last)
                affected_districts == [t \in {tracked[k] : k \in 1 .. Len(tracked)} |->
                                          Districts(t)]
                cumulative      == UNION {Districts(tracked[k]) : k \in 1 .. Len(tracked)}
                initial_districts == Districts(time_periods[s])
                district_counts == [k \in 1 .. Len(tracked) |->
                                       Cardinality(Districts(tracked[k]))]
                peak == CHOOSE k \in 1 .. Len(tracked) :
                            /\ district_counts[k] = MaxInts(district_counts)
                            /\ \A l \in 1 .. k - 1 : district_counts[l] < district_counts[k]
            IN  IF IsWave(Cardinality(cumulative), district_counts, min_spread)
                THEN << [state            |-> state,
                         start_time       |-> time_periods[s],
                         peak_time        |-> tracked[peak],
                         duration         |-> Len(tracked),
                         origin_districts |-> initial_districts,
                         total_affected   |-> Cardinality(cumulative),
                         all_districts    |-> cumulative,
                         spread_sequence  |-> affected_districts,
                         peak_count       |-> MaxInts(district_counts),
                         wave_score       |-> WaveScore(Cardinality(cumulative),
                                                        MaxInts(district_counts),
                                                        Cardinality(initial_districts))] >>
                ELSE << >>
    IN  Flatten([s \in 1 .. starts |-> Wave(s)])

\* sorted(waves, key=wave_score, reverse=True) (line 462): descending, and
\* waves of equal score keep their order.
RECURSIVE SortedByWaveScore(_)
SortedByWaveScore(waves) ==
    IF waves = << >> THEN << >>
    ELSE LET rest      == SortedByWaveScore(SubSeq(waves, 1, Len(waves) - 1))
             w         == waves[Len(waves)]
             Before(x) == RGe(x.wave_score, w.wave_score)
             After(x)  == ~RGe(x.wave_score, w.wave_score)
         IN  SelectSeq(rest, Before) \o << w >> \o SelectSeq(rest, After)

\* The rows with msi_score > 0.3 (line 410).
HighMsi(results) ==
    LET High(r) == RGt(r.msi_score_ssq, Rat(9, 100))
    IN  SelectSeq(results, High)

\* detect_wave_patterns (lines 407-462).
WavePatterns(results, min_duration, min_spread) ==
    LET high_msi == HighMsi(results)
        states   == Unique([i \in 1 .. Len(high_msi) |-> high_msi[i].state])
    IN  SortedByWaveScore(Flatten([i \in 1 .. Len(states) |->
            StateWaves(high_msi, states[i], min_duration, min_spread)]))

\* The largest min_duration and min_spread detect_wave_patterns is called
\* with; 3 and 3 are the defaults of the signature.
MaxDuration == 3
MaxSpread == 3

\* MobilitySignalIndexEngine(combined_data) (lines 239-244) on the combined
\* activity of one of the datasets; the forecaster does not run.
InitMSI ==
    /\ pc = None
    /\ bio_df = None
    /\ district_monthly = None
    /\ pincode_monthly = None
    /\ district_forecast = None
    /\ pincode_forecast = None
    /\ load_scores = None
    /\ rec_load_scores = None
    /\ recommendations = None
    /\ simulation_results = None
    /\ call = None
    /\ epc = "build_neighbor_graph"
    /\ \E activity \in EngineDatasets : data = CombinedFrame(activity)
    /\ district_neighbors = << >>
    /\ pincode_neighbors = << >>
    /\ temporal_pivot = None
    /\ temporal_changes = None
    /\ temporal_zscores = None
    /\ msi_results = None
    /\ wave_patterns = None
    /\ ecall = None

\* build_neighbor_graph(level) (lines 246-283).  run_msi_analysis builds the
\* district graph and goes on; the pincode graph may be built before it.
build_neighbor_graph ==
    /\ epc = "build_neighbor_graph"
    /\ \E level \in {"district", "pincode"} :
          /\ ecall' = [op |-> "build_neighbor_graph", level |-> level]
          /\ IF level = "district"
             THEN /\ district_neighbors' = DistrictNeighbors(data)
                  /\ epc' = "compute_temporal_changes"
                  /\ UNCHANGED pincode_neighbors
             ELSE /\ pincode_neighbors' \in PincodeNeighbors(data)
                  /\ UNCHANGED << district_neighbors, epc >>
    /\ UNCHANGED << data, temporal_pivot, temporal_changes, temporal_zscores,
                    msi_results, wave_patterns >>
    /\ UNCHANGED vars

\* compute_temporal_changes() (lines 285-312).
compute_temporal_changes ==
    /\ epc = "compute_temporal_changes"
    /\ temporal_pivot' = Pivot(data)
    /\ temporal_changes' = PctChange(Pivot(data))
    /\ temporal_zscores' = ZScores(Pivot(data))
    /\ epc' = "compute_msi"
    /\ ecall' = [op |-> "compute_temporal_changes"]
    /\ UNCHANGED << data, district_neighbors, pincode_neighbors, msi_results,
                    wave_patterns >>
    /\ UNCHANGED vars

\* compute_msi(window_size) (lines 314-394).
compute_msi ==
    /\ epc = "compute_msi"
    /\ \E window_size \in 1 .. MaxWindow :
          /\ msi_results' = MsiRecords(district_neighbors, temporal_changes,
                                       temporal_zscores, temporal_pivot, window_size)
          /\ ecall' = [op |-> "compute_msi", window_size |-> window_size]
    /\ epc' = "detect_wave_patterns"
    /\ UNCHANGED << data, district_neighbors, pincode_neighbors, temporal_pivot,
                    temporal_changes, temporal_zscores, wave_patterns >>
    /\ UNCHANGED vars

\* detect_wave_patterns(min_duration, min_spread) (lines 396-464).  An
\* msi_results without records is a frame without columns, and line 410
\* raises KeyError.
detect_wave_patterns ==
    /\ epc = "detect_wave_patterns"
    /\ \E min_duration \in 1 .. MaxDuration, min_spread \in 1 .. MaxSpread :
          /\ ecall' = [op |-> "detect_wave_patterns",
                       min_duration |-> min_duration, min_spread |-> min_spread]
          /\ IF msi_results = << >>
             THEN /\ epc' = "KeyError"
                  /\ UNCHANGED wave_patterns
             ELSE /\ wave_patterns' = WavePatterns(msi_results, min_duration, min_spread)
                  /\ epc' = "done"
    /\ UNCHANGED << data, district_neighbors, pincode_neighbors, temporal_pivot,
                    temporal_changes, temporal_zscores, msi_results >>
    /\ UNCHANGED vars

NextMSI ==
    \/ build_neighbor_graph
    \/ compute_temporal_changes
    \/ compute_msi
    \/ detect_wave_patterns

\* run_msi_analysis (lines 1045-1057) with free arguments.
SpecMSI == InitMSI /\ [][NextMSI]_all_vars

\* The year_week values of the msi_results given to detect_wave_patterns.
WavePeriods == 1 .. 4

\* One row of msi_results with the columns detect_wave_patterns reads.
WaveRow(state, district, t, score) ==
    [time_period   |-> t,
     state         |-> state,
     district      |-> district,
     geo_key       |-> GeoKey(state, district),
     msi_score_ssq |-> score]

\* The msi_results detect_wave_patterns may be given: a row per district of
\* the states X and Y and period, ordered as compute_msi orders them.  The
\* msi_score of a row of state X is 0.1 or 0.5.  In state Y district D is at
\* 0.5 in the first two periods, E and F are at 0.5 in the second, E is at
\* exactly 0.3 in the first, and every other row is at 0.1.
WaveTables ==
    LET units == {u \in 1 .. Len(EngineDirectory) : EngineDirectory[u].state = "X"}
        ScoreY(d, t) ==
            IF (d = "D" /\ t <= 2) \/ (d \in {"E", "F"} /\ t = 2) THEN Rat(1, 4)
            ELSE IF d = "E" /\ t = 1 THEN Rat(9, 100)
            ELSE Rat(1, 100)
        Rows(score, u) ==
            [k \in 1 .. Cardinality(WavePeriods) |->
                WaveRow(EngineDirectory[u].state, EngineDirectory[u].district,
                        SortedInts(WavePeriods)[k],
                        IF u \in units THEN score[<< u, SortedInts(WavePeriods)[k] >>]
                        ELSE ScoreY(EngineDirectory[u].district,
                                    SortedInts(WavePeriods)[k]))]
        In(u) == EngineDirectory[u].state \in {"X", "Y"}
        scored == SelectSeq([u \in 1 .. Len(EngineDirectory) |-> u], In)
    IN  { Flatten([i \in 1 .. Len(scored) |-> Rows(score, scored[i])]) :
            score \in [units \X WavePeriods -> {Rat(1, 100), Rat(1, 4)}] }

\* An engine whose msi_results is one of the tables, before
\* detect_wave_patterns.
InitWaves ==
    /\ pc = None
    /\ bio_df = None
    /\ district_monthly = None
    /\ pincode_monthly = None
    /\ district_forecast = None
    /\ pincode_forecast = None
    /\ load_scores = None
    /\ rec_load_scores = None
    /\ recommendations = None
    /\ simulation_results = None
    /\ call = None
    /\ epc = "detect_wave_patterns"
    /\ data = None
    /\ district_neighbors = << >>
    /\ pincode_neighbors = << >>
    /\ temporal_pivot = None
    /\ temporal_changes = None
    /\ temporal_zscores = None
    /\ msi_results \in WaveTables
    /\ wave_patterns = None
    /\ ecall = None

NextWaves ==
    \/ detect_wave_patterns

\* detect_wave_patterns on the tables of WaveTables.
SpecWaves == InitWaves /\ [][NextWaves]_all_vars

(* ----------------------- stages called in any order ------------------- *)
(* A caller that holds either a BiometricLoadForecaster (and the          *)
(* LoadBalancingRecommender made from its load scores) or a               *)
(* MobilitySignalIndexEngine and calls its methods in any order, any      *)
(* number of times.  Here pc and epc are the sets of the constructors and *)
(* methods that have returned on the object, call and ecall are the last  *)
(* call with the exception it raised, and an attribute that was never     *)
(* assigned is None.                                                      *)

\* The CSV contents these runs load: unit 2, or units 2 and 5, have two
\* volatile months.
CallDatasets ==
    { [u \in Units |-> IF u \in hot THEN << Rec(1, 0, 0), Rec(2, 3, 3) >>
                       ELSE BaseHistory(u)] : hot \in { {2}, {2, 5} } }

\* The activity these runs give the engine: state X with a drop in district
\* A over four weeks; the same over the first three weeks only; and the
\* districts A and B alone.
CallActivities ==
    LET Series(u) == IF u = 1 THEN << 100, 100, 40, 40 >> ELSE << 100, 100, 100, 100 >>
    IN  { [u \in 1 .. Len(EngineDirectory) |-> Series(u)],
          [u \in 1 .. Len(EngineDirectory) |-> SubSeq(Series(u), 1, 3)],
          [u \in 1 .. 2 |-> Series(u)] }

\* The outcome of a call that returned.
Returned(op) == [op |-> op, raised |-> None]
\* The outcome of a call that raised.
Raised(op, error) == [op |-> op, raised |-> error]

InitCalls ==
    /\ \E program \in {"balancer", "engine"} :
          /\ pc = IF program = "balancer" THEN {"BiometricLoadForecaster"} ELSE {}
          /\ epc = IF program = "engine" THEN {"MobilitySignalIndexEngine"} ELSE {}
          /\ data \in IF program = "engine"
                      THEN {CombinedFrame(activity) : activity \in CallActivities}
                      ELSE {None}
    /\ bio_df = None
    /\ district_monthly = None
    /\ pincode_monthly = None
    /\ district_forecast = None
    /\ pincode_forecast = None
    /\ load_scores = None
    /\ rec_load_scores = None
    /\ recommendations = None
    /\ simulation_results = None
    /\ call = Returned("__init__")
    /\ district_neighbors = << >>
    /\ pincode_neighbors = << >>
    /\ temporal_pivot = None
    /\ temporal_changes = None
    /\ temporal_zscores = None
    /\ msi_results = None
    /\ wave_patterns = None
    /\ ecall = Returned("__init__")

\* forecaster.load_data() (lines 76-101).
call_load_data ==
    /\ "BiometricLoadForecaster" \in pc
    /\ \E csv \in CallDatasets : bio_df' = LoadedFrame(csv)
    /\ pc' = pc \cup {"load_data"}
    /\ call' = Returned("load_data")
    /\ UNCHANGED << district_monthly, pincode_monthly, district_forecast,
                    pincode_forecast, load_scores, rec_load_scores,
                    recommendations, simulation_results >>
    /\ UNCHANGED engine_vars

\* forecaster.compute_historical_stats() (lines 103-122); self.bio_df is
\* None before load_data and line 108 raises.
call_compute_historical_stats ==
    /\ "BiometricLoadForecaster" \in pc
    /\ IF "load_data" \in pc
       THEN /\ district_monthly' = DistrictMonthlyFrame(bio_df)
            /\ pincode_monthly' = PincodeMonthlyFrame(bio_df)
            /\ pc' = pc \cup {"compute_historical_stats"}
            /\ call' = Returned("compute_historical_stats")
       ELSE /\ call' = Raised("compute_historical_stats", "AttributeError")
            /\ UNCHANGED << district_monthly, pincode_monthly, pc >>
    /\ UNCHANGED << bio_df, district_forecast, pincode_forecast, load_scores,
                    rec_load_scores, recommendations, simulation_results >>
    /\ UNCHANGED engine_vars

\* forecaster.forecast_next_month() (lines 124-205); self.bio_df is None
\* before load_data and line 129 raises.
call_forecast_next_month ==
    /\ "BiometricLoadForecaster" \in pc
    /\ IF "load_data" \in pc
       THEN /\ district_forecast' = DistrictForecastFrame(bio_df)
            /\ pincode_forecast' = PincodeForecastFrame(bio_df)
            /\ pc' = pc \cup {"forecast_next_month"}
            /\ call' = Returned("forecast_next_month")
       ELSE /\ call' = Raised("forecast_next_month", "AttributeError")
            /\ UNCHANGED << district_forecast, pincode_forecast, pc >>
    /\ UNCHANGED << bio_df, district_monthly, pincode_monthly, load_scores,
                    rec_load_scores, recommendations, simulation_results >>
    /\ UNCHANGED engine_vars

\* forecaster.calculate_load_scores() (lines 207-243); self.pincode_forecast
\* is None before forecast_next_month and line 214 raises.
call_calculate_load_scores ==
    /\ "BiometricLoadForecaster" \in pc
    /\ IF "forecast_next_month" \in pc
       THEN /\ load_scores' = LoadScoresFrame(pincode_forecast)
            /\ pc' = pc \cup {"calculate_load_scores"}
            /\ call' = Returned("calculate_load_scores")
       ELSE /\ call' = Raised("calculate_load_scores", "AttributeError")
            /\ UNCHANGED << load_scores, pc >>
    /\ UNCHANGED << bio_df, district_monthly, pincode_monthly, district_forecast,
                    pincode_forecast, rec_load_scores, recommendations,
                    simulation_results >>
    /\ UNCHANGED engine_vars

\* recommender = LoadBalancingRecommender(forecaster.load_scores) (lines
\* 253-256), a new object in place of the last.
call_new_recommender ==
    /\ "calculate_load_scores" \in pc
    /\ rec_load_scores' = load_scores
    /\ recommendations' = << >>
    /\ simulation_results' = None
    /\ pc' = (pc \ {"find_alternatives", "simulate_load_balancing"})
                \cup {"LoadBalancingRecommender"}
    /\ call' = Returned("__init__")
    /\ UNCHANGED << bio_df, district_monthly, pincode_monthly, district_forecast,
                    pincode_forecast, load_scores >>
    /\ UNCHANGED engine_vars

\* Variant of the list find_alternatives leaves that extends the list of
\* the object.
RecommendationsAppended(previous, scores, top_n, k) ==
    previous \o Recommendations(scores, top_n, k)

\* The list find_alternatives leaves in self.recommendations: a list begun
\* empty (line 267) and assigned at the end (line 312).
RecommendationsStored(previous, scores, top_n, k) ==
    Recommendations(scores, top_n, k)

\* recommender.find_alternatives(top_n_overloaded, alternatives_per_pincode)
call_find_alternatives ==
    /\ "LoadBalancingRecommender" \in pc
    /\ \E top_n \in 0 .. MaxTopN, k \in 0 .. MaxAlt :
        /\ recommendations' = RecommendationsStored(recommendations,
                                                    rec_load_scores, top_n, k)
        /\ call' = [op |-> "find_alternatives", raised |-> None,
                    top_n_overloaded |-> top_n, alternatives_per_pincode |-> k]
    /\ pc' = pc \cup {"find_alternatives"}
    /\ UNCHANGED << bio_df, district_monthly, pincode_monthly, district_forecast,
                    pincode_forecast, load_scores, rec_load_scores,
                    simulation_results >>
    /\ UNCHANGED engine_vars

\* recommender.simulate_load_balancing(redirect_percentages)
call_simulate_load_balancing ==
    /\ "LoadBalancingRecommender" \in pc
    /\ \E percentages \in PercentageLists :
        /\ simulation_results' = Simulations(recommendations, percentages)
        /\ call' = [op |-> "simulate_load_balancing", raised |-> None,
                    redirect_percentages |-> percentages]
    /\ pc' = pc \cup {"simulate_load_balancing"}
    /\ UNCHANGED << bio_df, district_monthly, pincode_monthly, district_forecast,
                    pincode_forecast, load_scores, rec_load_scores,
                    recommendations >>
    /\ UNCHANGED engine_vars

\* engine.build_neighbor_graph(level) (lines 246-283).
call_build_neighbor_graph ==
    /\ "MobilitySignalIndexEngine" \in epc
    /\ \E level \in {"district", "pincode"} :
          /\ ecall' = [op |-> "build_neighbor_graph", raised |-> None, level |-> level]
          /\ epc' = epc \cup {level}
          /\ IF level = "district"
             THEN /\ district_neighbors' = DistrictNeighbors(data)
                  /\ UNCHANGED pincode_neighbors
             ELSE /\ pincode_neighbors' \in PincodeNeighbors(data)
                  /\ UNCHANGED district_neighbors
    /\ UNCHANGED << data, temporal_pivot, temporal_changes, temporal_zscores,
                    msi_results, wave_patterns >>
    /\ UNCHANGED vars

\* engine.compute_temporal_changes() (lines 285-312).
call_compute_temporal_changes ==
    /\ "MobilitySignalIndexEngine" \in epc
    /\ temporal_pivot' = Pivot(data)
    /\ temporal_changes' = PctChange(Pivot(data))
    /\ temporal_zscores' = ZScores(Pivot(data))
    /\ epc' = epc \cup {"compute_temporal_changes"}
    /\ ecall' = Returned("compute_temporal_changes")
    /\ UNCHANGED << data, district_neighbors, pincode_neighbors, msi_results,
                    wave_patterns >>
    /\ UNCHANGED vars

\* engine.compute_msi(window_size) (lines 314-394); the object has no
\* attribute temporal_changes before compute_temporal_changes and line 329
\* raises.
call_compute_msi ==
    /\ "MobilitySignalIndexEngine" \in epc
    /\ \E window_size \in 1 .. MaxWindow :
          IF "compute_temporal_changes" \in epc
          THEN /\ msi_results' = MsiRecords(district_neighbors, temporal_changes,
                                            temporal_zscores, temporal_pivot,
                                            window_size)
               /\ epc' = epc \cup {"compute_msi"}
               /\ ecall' = [op |-> "compute_msi", raised |-> None,
                            window_size |-> window_size]
          ELSE /\ ecall' = [op |-> "compute_msi", raised |-> "AttributeError",
                            window_size |-> window_size]
               /\ UNCHANGED << msi_results, epc >>
    /\ UNCHANGED << data, district_neighbors, pincode_neighbors, temporal_pivot,
                    temporal_changes, temporal_zscores, wave_patterns >>
    /\ UNCHANGED vars

\* engine.detect_wave_patterns(min_duration, min_spread) (lines 396-464);
\* line 410 raises TypeError on the None of a new engine and KeyError on a
\* frame without columns.
call_detect_wave_patterns ==
    /\ "MobilitySignalIndexEngine" \in epc
    /\ \E min_duration \in 1 .. MaxDuration, min_spread \in 1 .. MaxSpread :
          IF "compute_msi" \notin epc
          THEN /\ ecall' = Raised("detect_wave_patterns", "TypeError")
               /\ UNCHANGED << wave_patterns, epc >>
          ELSE IF msi_results = << >>
          THEN /\ ecall' = Raised("detect_wave_patterns", "KeyError")
               /\ UNCHANGED << wave_patterns, epc >>
          ELSE /\ wave_patterns' = WavePatterns(msi_results, min_duration, min_spread)
               /\ epc' = epc \cup {"detect_wave_patterns"}
               /\ ecall' = Returned("detect_wave_patterns")
    /\ UNCHANGED << data, district_neighbors, pincode_neighbors, temporal_pivot,
                    temporal_changes, temporal_zscores, msi_results >>
    /\ UNCHANGED vars

\* engine.get_redistribution_hotspots(top_n) (lines 466-499): it assigns no
\* attribute; line 471 raises AttributeError on the None of a new engine and
\* KeyError on a frame without columns, and otherwise the ranking is
\* returned.
get_redistribution_hotspots ==
    /\ "MobilitySignalIndexEngine" \in epc
    /\ ecall' = IF "compute_msi" \notin epc
                THEN Raised("get_redistribution_hotspots", "AttributeError")
                ELSE IF msi_results = << >>
                THEN Raised("get_redistribution_hotspots", "KeyError")
                ELSE Returned("get_redistribution_hotspots")
    /\ UNCHANGED << epc, data, district_neighbors, pincode_neighbors, temporal_pivot,
                    temporal_changes, temporal_zscores, msi_results, wave_patterns >>
    /\ UNCHANGED vars

NextCalls ==
    \/ call_load_data
    \/ call_compute_historical_stats
    \/ call_forecast_next_month
    \/ call_calculate_load_scores
    \/ call_new_recommender
    \/ call_find_alternatives
    \/ call_simulate_load_balancing
    \/ call_build_neighbor_graph
    \/ call_compute_temporal_changes
    \/ call_compute_msi
    \/ call_detect_wave_patterns
    \/ get_redistribution_hotspots

\* The methods of one of the objects, called in any order.
SpecCalls == InitCalls /\ [][NextCalls]_all_vars

(* ------------------------------ claims -------------------------------- *)

\* calculate_load_scores, find_alternatives, simulate_load_balancing has run.
\* (An attribute that is still None is never compared with a frame.)
Scored == pc \in {"new_recommender", "find_alternatives", "simulate_load_balancing", "done"}
Recommended == pc \in {"simulate_load_balancing", "done"}
Simulated == pc = "done"

Rows == 1 .. Len(rec_load_scores)

\* The rows of load_scores that Pass 1 / Pass 2 may pick for recommendation
\* rec, stated from the recommendation's own fields.
Pass1Rows(rec) ==
    {i \in Rows :
        /\ rec_load_scores[i].state = rec.state
        /\ rec_load_scores[i].district = rec.district
        /\ rec_load_scores[i].pincode # rec.pincode
        /\ RGt(rec_load_scores[i].spare_capacity, Rat(1, 2))}

Pass2Rows(rec) ==
    {i \in Rows :
        /\ rec_load_scores[i].pincode \div 100 = rec.pincode \div 100
        /\ rec_load_scores[i].pincode # rec.pincode
        /\ RGt(rec_load_scores[i].spare_capacity, Rat(3, 10))}

\* The row of load_scores an alternative was built from ((district, pincode)
\* identifies a row of Directory).
RowOf(alt) ==
    CHOOSE i \in Rows :
        /\ rec_load_scores[i].pincode = alt.alt_pincode
        /\ rec_load_scores[i].district = alt.alt_district

FlaggedRows == {i \in Rows : rec_load_scores[i].is_overloaded}

Min(a, b) == IF a <= b THEN a ELSE b

\* C1: after calculate_load_scores, a row's is_overloaded flag is true exactly
\* when its load_score is at least 0.9.
C1_FlagIsThreshold ==
    Scored =>
        \A i \in 1 .. Len(load_scores) :
            load_scores[i].is_overloaded <=> ScoreGe(load_scores[i].load_score, Rat(9, 10))

\* A run with a flagged row, an unflagged row with a score, and a row whose
\* score is NaN.
C1_Witness ==
    /\ Scored
    /\ \E i, j, k \in 1 .. Len(load_scores) :
        /\ load_scores[i].is_overloaded
        /\ ~load_scores[j].is_overloaded /\ ~IsNaN(load_scores[j].load_score)
        /\ IsNaN(load_scores[k].load_score)

\* C2: after calculate_load_scores, load_score lies in [0, 1] for every unit,
\* a unit with a single record included.
C2_ScoreInUnitInterval ==
    Scored =>
        \A i \in 1 .. Len(load_scores) :
            /\ ScoreGe(load_scores[i].load_score, FromInt(0))
            /\ ScoreLe(load_scores[i].load_score, FromInt(1))

\* C3: after calculate_load_scores, load_percentile + spare_capacity = 1 for
\* every unit, and load_percentile is the fractional rank of forecast_load:
\* (number of smaller loads + (number of equal loads + 1) / 2) / number of units.
C3_PercentileAndSpare ==
    Scored =>
        \A i \in 1 .. Len(load_scores) :
            LET n    == Len(load_scores)
                less == Cardinality({j \in 1 .. n :
                            RLt(load_scores[j].forecast_load, load_scores[i].forecast_load)})
                eq   == Cardinality({j \in 1 .. n :
                            REq(load_scores[j].forecast_load, load_scores[i].forecast_load)})
            IN  /\ REq(RAdd(load_scores[i].load_percentile,
                            load_scores[i].spare_capacity), FromInt(1))
                /\ REq(load_scores[i].load_percentile, Rat(2 * less + eq + 1, 2 * n))

\* A run where two units tie on forecast_load and a third has a load of its own.
C3_Witness ==
    /\ Scored
    /\ \E i, j, k \in 1 .. Len(load_scores) :
        /\ i # j
        /\ REq(load_scores[i].forecast_load, load_scores[j].forecast_load)
        /\ \A m \in 1 .. Len(load_scores) :
            m # k => ~REq(load_scores[m].forecast_load, load_scores[k].forecast_load)

\* C4: no alternative of a recommendation carries the source's own pincode,
\* and a recommendation has at most alternatives_per_pincode alternatives.
C4_NoSelfAtMostK ==
    Recommended =>
        \A r \in 1 .. Len(recommendations) :
            LET rec == recommendations[r]
            IN  /\ Len(rec.alternatives) <= call.alternatives_per_pincode
                /\ \A a \in 1 .. Len(rec.alternatives) :
                    rec.alternatives[a].alt_pincode # rec.pincode

\* A recommendation filled to K >= 2 by Pass 2 while another district's row
\* with the source's pincode had spare capacity above 0.3.
C4_Witness ==
    /\ Recommended
    /\ \E r \in 1 .. Len(recommendations) :
        LET rec == recommendations[r]
        IN  /\ call.alternatives_per_pincode >= 2
            /\ Len(rec.alternatives) = call.alternatives_per_pincode
            /\ Cardinality(Pass1Rows(rec)) < call.alternatives_per_pincode
            /\ \E i \in Rows :
                /\ rec_load_scores[i].pincode = rec.pincode
                /\ rec_load_scores[i].district # rec.district
                /\ RGt(rec_load_scores[i].spare_capacity, Rat(3, 10))

\* C5: when at least K rows pass the Pass-1 filter, every alternative is one
\* of them (same state and district, spare capacity above 0.5).
C5_Pass1Suffices ==
    Recommended =>
        \A r \in 1 .. Len(recommendations) :
            LET rec == recommendations[r]
            IN  Cardinality(Pass1Rows(rec)) >= call.alternatives_per_pincode =>
                    \A a \in 1 .. Len(rec.alternatives) :
                        \E i \in Pass1Rows(rec) :
                            Alternative(rec_load_scores[i]) = rec.alternatives[a]

\* A recommendation with K >= 1 whose Pass 1 found K rows while a row outside
\* the district passed the Pass-2 filter with more spare capacity than a
\* chosen alternative.
C5_Witness ==
    /\ Recommended
    /\ \E r \in 1 .. Len(recommendations) :
        LET rec == recommendations[r]
        IN  /\ call.alternatives_per_pincode >= 1
            /\ Cardinality(Pass1Rows(rec)) >= call.alternatives_per_pincode
            /\ Len(rec.alternatives) = call.alternatives_per_pincode
            /\ \E i \in Pass2Rows(rec) \ Pass1Rows(rec), a \in 1 .. Len(rec.alternatives) :
                RGt(rec_load_scores[i].spare_capacity, rec.alternatives[a].spare_capacity)

\* Entries a < b of one alternatives list are in order: more spare capacity
\* first, equal spare capacity in the row order of load_scores.
InOrder(alts, a, b) ==
    \/ RGt(alts[a].spare_capacity, alts[b].spare_capacity)
    \/ /\ REq(alts[a].spare_capacity, alts[b].spare_capacity)
       /\ RowOf(alts[a]) < RowOf(alts[b])

\* C6 as claimed: the whole alternatives list of every recommendation is in
\* descending spare_capacity, ties in the row order of load_scores (an entry
\* repeated by both passes counts as in order).
C6_WholeListOrdered ==
    Recommended =>
        \A r \in 1 .. Len(recommendations) :
            LET alts == recommendations[r].alternatives
            IN  \A a, b \in 1 .. Len(alts) :
                    a < b => \/ InOrder(alts, a, b)
                             \/ alts[a] = alts[b]

\* C6, amended: the list is the Pass-1 rows followed by the Pass-2 rows, and
\* each of the two parts is in descending spare_capacity, ties in row order.
C6_EachPassOrdered ==
    Recommended =>
        \A r \in 1 .. Len(recommendations) :
            LET rec  == recommendations[r]
                alts == rec.alternatives
                n1   == Min(call.alternatives_per_pincode, Cardinality(Pass1Rows(rec)))
            IN  /\ Len(alts) >= n1
                /\ \A a \in 1 .. Len(alts) :
                    RowOf(alts[a]) \in (IF a <= n1 THEN Pass1Rows(rec) ELSE Pass2Rows(rec))
                /\ \A a, b \in 1 .. Len(alts) :
                    (a < b /\ (b <= n1 \/ a > n1)) => InOrder(alts, a, b)

\* A recommendation whose last Pass-1 row has less spare capacity than the
\* Pass-2 row after it.
C6_Witness ==
    /\ Recommended
    /\ \E r \in 1 .. Len(recommendations) :
        LET rec  == recommendations[r]
            alts == rec.alternatives
            n1   == Min(call.alternatives_per_pincode, Cardinality(Pass1Rows(rec)))
        IN  /\ n1 >= 1
            /\ Len(alts) > n1
            /\ RLt(alts[n1].spare_capacity, alts[n1 + 1].spare_capacity)

\* The row of load_scores a recommendation was built for.
SourceRow(rec) ==
    CHOOSE i \in Rows :
        /\ rec_load_scores[i].pincode = rec.pincode
        /\ rec_load_scores[i].district = rec.district
        /\ rec_load_scores[i].state = rec.state

SelectedRows == {SourceRow(recommendations[r]) : r \in 1 .. Len(recommendations)}

\* C7: find_alternatives(N, K) gives min(N, number of overloaded units)
\* recommendations, each for another overloaded unit, in descending
\* load_score, and no overloaded unit left out has a higher load_score than
\* a selected one.
C7_TopNOverloaded ==
    Recommended =>
        /\ Len(recommendations) = Min(call.top_n_overloaded, Cardinality(FlaggedRows))
        /\ Cardinality(SelectedRows) = Len(recommendations)
        /\ \A r \in 1 .. Len(recommendations) :
            LET rec == recommendations[r]
            IN  /\ \E i \in FlaggedRows :
                    /\ rec_load_scores[i].pincode = rec.pincode
                    /\ rec_load_scores[i].district = rec.district
                    /\ rec_load_scores[i].state = rec.state
                    /\ rec_load_scores[i].load_score = rec.load_score
                    /\ rec_load_scores[i].forecast_load = rec.forecast_load
                /\ \A q \in 1 .. Len(recommendations) :
                    r < q => ~ScoreGtScore(recommendations[q].load_score, rec.load_score)
                /\ \A i \in FlaggedRows \ SelectedRows :
                    ~ScoreGtScore(rec_load_scores[i].load_score, rec.load_score)

\* Two overloaded units with different load scores and N = 1.
C7_Witness ==
    /\ Recommended
    /\ call.top_n_overloaded = 1
    /\ Len(recommendations) = 1
    /\ \E i \in FlaggedRows :
        ScoreGtScore(recommendations[1].load_score, rec_load_scores[i].load_score)

\* C8: num_alternatives is the length of alternatives; a recommendation whose
\* source has no row passing either filter has alternatives = [] and
\* num_alternatives = 0; and an overloaded unit with fewer than N overloaded
\* units scoring at least as high is in recommendations, peers or not.
C8_UnmitigatableReported ==
    Recommended =>
        /\ \A r \in 1 .. Len(recommendations) :
            LET rec == recommendations[r]
            IN  /\ rec.num_alternatives = Len(rec.alternatives)
                /\ (Pass1Rows(rec) = {} /\ Pass2Rows(rec) = {}) =>
                        (rec.alternatives = << >> /\ rec.num_alternatives = 0)
        /\ \A i \in FlaggedRows :
            Cardinality({j \in FlaggedRows \ {i} :
                ~ScoreGtScore(rec_load_scores[i].load_score,
                              rec_load_scores[j].load_score)}) < call.top_n_overloaded
            => i \in SelectedRows

\* A recommendation asked for K >= 1 alternatives whose source has no row
\* passing either filter.
C8_Witness ==
    /\ Recommended
    /\ call.alternatives_per_pincode >= 1
    /\ \E r \in 1 .. Len(recommendations) :
        LET rec == recommendations[r]
        IN  /\ Pass1Rows(rec) = {} /\ Pass2Rows(rec) = {}
            /\ rec.alternatives = << >>

\* C9: a scenario with redirect percentage 0 has new_peak_load =
\* original_peak_load, total_redirected = 0 and peak_reduction_pct = 0.
C9_ZeroPercent ==
    Simulated =>
        \A i \in 1 .. Len(simulation_results) :
            LET sc == simulation_results[i]
            IN  sc.redirect_percentage = 0 =>
                    /\ REq(sc.new_peak_load, sc.original_peak_load)
                    /\ REq(sc.total_redirected, FromInt(0))
                    /\ REq(sc.peak_reduction_pct, FromInt(0))

\* A 0% scenario over a recommendation that has alternatives and load.
C9_Witness ==
    /\ Simulated
    /\ \E i \in 1 .. Len(simulation_results) :
        /\ simulation_results[i].redirect_percentage = 0
        /\ RGt(simulation_results[i].original_peak_load, FromInt(0))
    /\ \E r \in 1 .. Len(recommendations) : recommendations[r].alternatives # << >>

\* C10: of two scenarios of one simulation, the one with the smaller or equal
\* redirect percentage has the smaller or equal peak_reduction_pct.
C10_ReductionMonotone ==
    Simulated =>
        \A i, j \in 1 .. Len(simulation_results) :
            simulation_results[i].redirect_percentage
                <= simulation_results[j].redirect_percentage
            => RLe(simulation_results[i].peak_reduction_pct,
                   simulation_results[j].peak_reduction_pct)

\* Two scenarios with different percentages and different reductions, over
\* recommendations of which one has alternatives and one has none.
C10_Witness ==
    /\ Simulated
    /\ \E i, j \in 1 .. Len(simulation_results) :
        /\ simulation_results[i].redirect_percentage
            < simulation_results[j].redirect_percentage
        /\ RLt(simulation_results[i].peak_reduction_pct,
               simulation_results[j].peak_reduction_pct)
    /\ \E r, q \in 1 .. Len(recommendations) :
        /\ recommendations[r].alternatives # << >>
        /\ recommendations[q].alternatives = << >>

\* The sum of forecast_load over the recommendations, and over those with at
\* least one alternative.
LoadOfAll ==
    SumRats([r \in 1 .. Len(recommendations) |-> recommendations[r].forecast_load])

LoadWithAlternatives ==
    SumRats([r \in 1 .. Len(recommendations) |->
        IF recommendations[r].num_alternatives >= 1
        THEN recommendations[r].forecast_load ELSE FromInt(0)])

\* C11: in every scenario with percentage p, original_peak_load is the sum of
\* forecast_load over the recommendations, total_redirected is p/100 of the
\* load of the recommendations with an alternative, new_peak_load is
\* original_peak_load - total_redirected (a recommendation without
\* alternatives keeps its full load), and peak_reduction_pct is
\* (original - new) / original x 100, or 0 when original_peak_load is 0.
C11_ScenarioTotals ==
    Simulated =>
        \A i \in 1 .. Len(simulation_results) :
            LET sc == simulation_results[i]
                p  == sc.redirect_percentage
            IN  /\ sc.original_peak_load = LoadOfAll
                /\ sc.total_redirected = RMul(Rat(p, 100), LoadWithAlternatives)
                /\ sc.new_peak_load = RSub(sc.original_peak_load, sc.total_redirected)
                /\ sc.peak_reduction_pct =
                        IF sc.original_peak_load = FromInt(0) THEN FromInt(0)
                        ELSE RMul(RDiv(RSub(sc.original_peak_load, sc.new_peak_load),
                                       sc.original_peak_load), FromInt(100))

\* A scenario with a positive percentage over two recommendations with load,
\* one with alternatives and one without.
C11_Witness ==
    /\ Simulated
    /\ \E i \in 1 .. Len(simulation_results) :
        simulation_results[i].redirect_percentage > 0
    /\ \E r, q \in 1 .. Len(recommendations) :
        /\ recommendations[r].num_alternatives >= 1
        /\ recommendations[q].num_alternatives = 0
        /\ RGt(recommendations[r].forecast_load, FromInt(0))
        /\ RGt(recommendations[q].forecast_load, FromInt(0))

\* C12: a step of simulate_load_balancing leaves recommendations and
\* load_scores as they were, and the row it computes for a percentage p is
\* the row it computes when p is the only percentage of the list.
C12_ScenariosIndependent ==
    [][pc = "simulate_load_balancing" =>
        /\ recommendations' = recommendations
        /\ rec_load_scores' = rec_load_scores
        /\ load_scores' = load_scores
        /\ \A i \in 1 .. Len(simulation_results') :
            simulation_results'[i] =
                Simulations(recommendations,
                            << simulation_results'[i].redirect_percentage >>)[1]]_vars

\* A simulation in which one percentage occurs twice, around another one,
\* over a recommendation with alternatives and load.
C12_Witness ==
    /\ Simulated
    /\ \E i, j, k \in 1 .. Len(simulation_results) :
        /\ i < j /\ j < k
        /\ simulation_results[i].redirect_percentage
            = simulation_results[k].redirect_percentage
        /\ simulation_results[i].redirect_percentage
            # simulation_results[j].redirect_percentage
        /\ simulation_results[i] = simulation_results[k]
    /\ \E r \in 1 .. Len(recommendations) :
        /\ recommendations[r].num_alternatives >= 1
        /\ RGt(recommendations[r].forecast_load, FromInt(0))

\* The category of a load score under right-open bins [0, 0.5), [0.5, 0.75),
\* [0.75, 0.9), [0.9, 1.0], the last one closed.
RightOpenCategory(score) ==
    IF ScoreGe(score, FromInt(0)) /\ ~ScoreGe(score, Rat(1, 2)) THEN "Low"
    ELSE IF ScoreGe(score, Rat(1, 2)) /\ ~ScoreGe(score, Rat(3, 4)) THEN "Medium"
    ELSE IF ScoreGe(score, Rat(3, 4)) /\ ~ScoreGe(score, Rat(9, 10)) THEN "High"
    ELSE IF ScoreGe(score, Rat(9, 10)) /\ ScoreLe(score, FromInt(1)) THEN "Critical"
    ELSE "NaN"

\* C19: load_category is the right-open bin of load_score over the edges
\* [0, 0.5, 0.75, 0.9, 1.0] (0.5 is Medium, 0.75 High, 0.9 Critical), every
\* unit flagged is_overloaded is Critical, and every unit has one of the four
\* categories.
C19_RightOpenBins ==
    Scored =>
        \A i \in 1 .. Len(load_scores) :
            /\ load_scores[i].load_category = RightOpenCategory(load_scores[i].load_score)
            /\ load_scores[i].is_overloaded => load_scores[i].load_category = "Critical"
            /\ load_scores[i].load_category \in {"Low", "Medium", "High", "Critical"}

MsiComputed == epc = "detect_wave_patterns" /\ ecall.op = "compute_msi"

\* The total_activity of a district per year_week in the engine's data.
SeriesOf(state, district) ==
    LET In(r) == r.state = state /\ r.district = district
        rows  == SelectSeq(data, In)
    IN  [i \in 1 .. Len(rows) |-> rows[i].total_activity]

\* The records of msi_results for a district.
RecordsOf(state, district) ==
    LET In(r) == r.geo_key = GeoKey(state, district)
    IN  SelectSeq(msi_results, In)

\* The districts of state X.
DistrictsX == {"A", "B", "C"}

\* Two districts of state X are flat at 100 and the third drops to 40.
DropScenario(third) ==
    /\ SeriesOf("X", third) = << 100, 100, 40, 40 >>
    /\ \A d \in DistrictsX \ {third} : SeriesOf("X", d) = << 100, 100, 100, 100 >>

\* C13 as stated: in the scenario, after build_neighbor_graph('district'),
\* compute_temporal_changes and compute_msi(window_size=3), the dropping
\* district has the strictly highest inverse_correlation of the three and a
\* strictly positive msi_score.
C13_DropScoresHighest ==
    \A third \in DistrictsX :
        (MsiComputed /\ ecall.window_size = 3 /\ DropScenario(third)) =>
            /\ Len(RecordsOf("X", third)) > 0
            /\ \A i \in 1 .. Len(RecordsOf("X", third)) :
                  LET r == RecordsOf("X", third)[i]
                  IN  /\ RGt(r.msi_score_ssq, FromInt(0))
                      /\ \A d \in DistrictsX \ {third} :
                            \A k \in 1 .. Len(RecordsOf("X", d)) :
                                RGt(r.inverse_correlation_ssq,
                                    RecordsOf("X", d)[k].inverse_correlation_ssq)

\* C13 amended: in the scenario every one of the three districts has one
\* record, at the fourth period, with inverse_correlation 0 and msi_score 0:
\* the flat districts have no variance of their own, and the dropping one
\* has neighbors whose mean change has none.
C13_DropScoresZero ==
    \A third \in DistrictsX :
        (MsiComputed /\ ecall.window_size = 3 /\ DropScenario(third)) =>
            \A d \in DistrictsX :
                /\ Len(RecordsOf("X", d)) = 1
                /\ RecordsOf("X", d)[1].time_period = 4
                /\ RecordsOf("X", d)[1].inverse_correlation_ssq = FromInt(0)
                /\ RecordsOf("X", d)[1].msi_score_ssq = FromInt(0)

\* The scenario has been computed with window_size = 3, and the dropping
\* district has a record with a change of -60% two periods back.
C13_Witness ==
    /\ MsiComputed
    /\ ecall.window_size = 3
    /\ DropScenario("C")
    /\ Len(RecordsOf("X", "C")) = 1
    /\ temporal_changes.values[3][ColumnOf(temporal_changes, GeoKey("X", "C"))] = Rat(-3, 5)
    /\ RecordsOf("X", "C")[1].num_neighbors = 2

\* The percent changes of the location of a record over the trailing window
\* of the last compute_msi call.
LocWindow(r) ==
    [k \in 1 .. ecall.window_size + 1 |->
        temporal_changes.values[r.time_period - ecall.window_size + k - 1]
                               [ColumnOf(temporal_changes, r.geo_key)]]

\* The mean percent changes of its neighbors over the same window.
NeighborWindow(r) ==
    LET ns == district_neighbors[r.geo_key]
    IN  [k \in 1 .. ecall.window_size + 1 |->
            MeanRats([n \in 1 .. Len(ns) |->
                temporal_changes.values[r.time_period - ecall.window_size + k - 1]
                                       [ColumnOf(temporal_changes, ns[n])]])]

\* C14: whenever the location's percent changes over the trailing window
\* have zero variance, or the neighbor means have zero variance, or the
\* window has fewer than 3 points, inverse_correlation is 0 and msi_score
\* is 0.
C14_UndefinedCorrelationIsZero ==
    MsiComputed =>
        \A i \in 1 .. Len(msi_results) :
            LET r == msi_results[i]
            IN  (\/ Len(LocWindow(r)) < 3
                 \/ SumSqDev(LocWindow(r)).num = 0
                 \/ SumSqDev(NeighborWindow(r)).num = 0) =>
                    /\ r.inverse_correlation_ssq = FromInt(0)
                    /\ r.msi_score_ssq = FromInt(0)

\* C15 as stated: when the location's percent changes over the trailing
\* window equal the neighbor means point for point and are not constant,
\* inverse_correlation is -1 and msi_score is at most 0.
C15_IdenticalWindows ==
    MsiComputed =>
        \A i \in 1 .. Len(msi_results) :
            LET r == msi_results[i]
            IN  (LocWindow(r) = NeighborWindow(r) /\ SumSqDev(LocWindow(r)).num > 0) =>
                    /\ r.inverse_correlation_ssq = FromInt(-1)
                    /\ RLe(r.msi_score_ssq, FromInt(0))

\* C15 amended: the same for a window of at least 3 points (window_size of
\* at least 2); a window of 2 points gets inverse_correlation 0.
C15_IdenticalWindowsOfThree ==
    MsiComputed =>
        \A i \in 1 .. Len(msi_results) :
            LET r == msi_results[i]
            IN  (LocWindow(r) = NeighborWindow(r) /\ SumSqDev(LocWindow(r)).num > 0) =>
                    IF Len(LocWindow(r)) >= 3
                    THEN /\ r.inverse_correlation_ssq = FromInt(-1)
                         /\ RLe(r.msi_score_ssq, FromInt(0))
                    ELSE /\ r.inverse_correlation_ssq = FromInt(0)
                         /\ r.msi_score_ssq = FromInt(0)

\* A record whose window of 4 points equals the neighbor means and is not
\* constant, with inverse_correlation -1 and a negative msi_score.
C15_Witness ==
    /\ MsiComputed
    /\ \E i \in 1 .. Len(msi_results) :
          LET r == msi_results[i]
          IN  /\ LocWindow(r) = NeighborWindow(r)
              /\ SumSqDev(LocWindow(r)).num > 0
              /\ Len(LocWindow(r)) = 4
              /\ r.inverse_correlation_ssq = FromInt(-1)
              /\ RLt(r.msi_score_ssq, FromInt(0))

\* C18: in the pincode-level neighbor graph two distinct pincodes of the data
\* are neighbors if and only if they have the same 4-digit prefix or their
\* 3-digit prefixes differ by at most 1; a neighbor list has neither the
\* pincode itself nor a duplicate.
C18_PincodeNeighbors ==
    \A p \in DOMAIN pincode_neighbors :
        LET l == pincode_neighbors[p]
        IN  /\ \A q \in DOMAIN pincode_neighbors \ {p} :
                  (\E i \in 1 .. Len(l) : l[i] = q) <=>
                      \/ FirstDigits(p, 4) = FirstDigits(q, 4)
                      \/ Abs(FirstDigits(p, 3) - FirstDigits(q, 3)) <= 1
            /\ \A i \in 1 .. Len(l) : l[i] # p
            /\ \A i, j \in 1 .. Len(l) : l[i] = l[j] => i = j

\* detect_wave_patterns has returned a list.
WavesDetected == epc = "done" /\ ecall.op = "detect_wave_patterns"

\* The districts of a state with msi_score > 0.3 at a period.
HighDistricts(state, t) ==
    {msi_results[i].district :
        i \in {j \in 1 .. Len(msi_results) :
                  /\ msi_results[j].state = state
                  /\ msi_results[j].time_period = t
                  /\ RGt(msi_results[j].msi_score_ssq, Rat(9, 100))}}

\* The periods at which a state has such a district.
HighPeriods(state) ==
    {t \in {msi_results[i].time_period : i \in 1 .. Len(msi_results)} :
        HighDistricts(state, t) # {}}

\* The periods tracked from a start period: the start and the next
\* min_duration + 1 periods of the state.
Tracked(state, start, min_duration) ==
    {t \in HighPeriods(state) :
        /\ t >= start
        /\ Cardinality({u \in HighPeriods(state) : start < u /\ u <= t}) <= min_duration + 1}

\* C16: no wave is emitted for a state and start time whose count of
\* high-MSI districts in the tracked periods never exceeds the count at the
\* start, and every wave has a peak_count greater than its number of origin
\* districts.
C16_NoWaveWithoutGrowth ==
    WavesDetected =>
        /\ \A i \in 1 .. Len(wave_patterns) :
              wave_patterns[i].peak_count > Cardinality(wave_patterns[i].origin_districts)
        /\ \A state \in {msi_results[i].state : i \in 1 .. Len(msi_results)} :
              \A start \in HighPeriods(state) :
                  (\A t \in Tracked(state, start, ecall.min_duration) :
                      Cardinality(HighDistricts(state, t))
                          <= Cardinality(HighDistricts(state, start)))
                  => ~ \E i \in 1 .. Len(wave_patterns) :
                          /\ wave_patterns[i].state = state
                          /\ wave_patterns[i].start_time = start

\* A wave has been emitted, and another start time of the same state tracks
\* at least two periods and reaches min_spread districts but never has more
\* districts than at its start, and has no wave.
C16_Witness ==
    /\ WavesDetected
    /\ \E i \in 1 .. Len(wave_patterns) :
          LET state == wave_patterns[i].state
          IN  \E start \in HighPeriods(state) :
                 LET tracked == Tracked(state, start, ecall.min_duration)
                 IN  /\ Cardinality(tracked) >= 2
                     /\ Cardinality({u \in HighPeriods(state) : u > start})
                            >= ecall.min_duration
                     /\ Cardinality(UNION {HighDistricts(state, t) : t \in tracked})
                            >= ecall.min_spread
                     /\ \A t \in tracked :
                            Cardinality(HighDistricts(state, t))
                                <= Cardinality(HighDistricts(state, start))
                     /\ \A k \in 1 .. Len(wave_patterns) :
                            ~(wave_patterns[k].state = state
                              /\ wave_patterns[k].start_time = start)

\* C17: every wave has total_affected >= min_spread and wave_score =
\* total_affected x peak_count / (number of origin districts + 1), and the
\* list is in descending order of wave_score.
C17_ScoreAndOrder ==
    WavesDetected =>
        /\ \A i \in 1 .. Len(wave_patterns) :
              LET w == wave_patterns[i]
              IN  /\ w.total_affected >= ecall.min_spread
                  /\ w.total_affected = Cardinality(w.all_districts)
                  /\ w.wave_score.num * (Cardinality(w.origin_districts) + 1)
                        = w.total_affected * w.peak_count * w.wave_score.den
        /\ \A i, j \in 1 .. Len(wave_patterns) :
              i < j => RGe(wave_patterns[i].wave_score, wave_patterns[j].wave_score)

\* Waves of both states with different scores, the first of them found
\* after the second: a later start time or the later state.
C17_Witness ==
    /\ WavesDetected
    /\ ecall.min_spread > 1
    /\ \E i, j \in 1 .. Len(wave_patterns) :
          /\ i < j
          /\ RGt(wave_patterns[i].wave_score, wave_patterns[j].wave_score)
          /\ wave_patterns[i].state = "X"
          /\ wave_patterns[j].state = "X"
          /\ wave_patterns[i].start_time > wave_patterns[j].start_time
    /\ \E i, j \in 1 .. Len(wave_patterns) :
          /\ i < j
          /\ wave_patterns[i].state = "Y"
          /\ wave_patterns[j].state = "X"

(* ------------------- further claims about the balancer ---------------- *)

\* forecast_next_month has returned and the next stage has not begun; no
\* later stage assigns district_forecast or pincode_forecast.
Forecasted == pc = "calculate_load_scores"

\* C21: after forecast_next_month the spike_risk of every district-level and
\* pincode-level unit is a number in [0, 2], a unit with exactly one record
\* included.
C21_SpikeRiskBounded ==
    Forecasted =>
        /\ \A i \in 1 .. Len(pincode_forecast) :
              /\ RGe(pincode_forecast[i].spike_risk_sq, FromInt(0))
              /\ RLe(pincode_forecast[i].spike_risk_sq, FromInt(4))
        /\ \A i \in 1 .. Len(district_forecast) :
              /\ RGe(district_forecast[i].spike_risk_sq, FromInt(0))
              /\ RLe(district_forecast[i].spike_risk_sq, FromInt(4))

\* The units of bio_df in the (state, district) group of a district_forecast
\* row, or the one unit of a pincode_forecast row.
UnitsOfRow(row, level) ==
    {u \in DOMAIN bio_df :
        /\ bio_df[u].state = row.state
        /\ bio_df[u].district = row.district
        /\ level = "pincode" => bio_df[u].pincode = row.pincode}

\* The months in which the units have records, and the sum of all their
\* records.
BucketsOf(units) ==
    UNION {{bio_df[u].records[i].year_month : i \in 1 .. Len(bio_df[u].records)} :
            u \in units}

TotalOf(units) ==
    LET us == SortedInts(units)
    IN  SumInts([k \in 1 .. Len(us) |-> SumInts(Totals(bio_df[us[k]].records))])

\* trend = 0, forecast_load = last_month_load, and with a single bucket
\* last_month_load is the bucket's total.
DegenerateForecast(row, level) ==
    /\ row.trend = FromInt(0)
    /\ row.forecast_load = FromInt(row.last_month_load)
    /\ Cardinality(BucketsOf(UnitsOfRow(row, level))) = 1 =>
          row.last_month_load = TotalOf(UnitsOfRow(row, level))

\* C22: a district with fewer than 3 monthly buckets and a pincode with
\* fewer than 2 get trend = 0 and forecast_load = last_month_load; a unit
\* with a single bucket gets that bucket's total as last_month_load.
C22_InsufficientHistory ==
    Forecasted =>
        /\ \A i \in 1 .. Len(district_forecast) :
              Cardinality(BucketsOf(UnitsOfRow(district_forecast[i], "district"))) < 3
                  => DegenerateForecast(district_forecast[i], "district")
        /\ \A i \in 1 .. Len(pincode_forecast) :
              Cardinality(BucketsOf(UnitsOfRow(pincode_forecast[i], "pincode"))) < 2
                  => DegenerateForecast(pincode_forecast[i], "pincode")

\* A district with exactly 2 buckets and one with 4 and a trend, a pincode
\* with one bucket of two records and one with 4 buckets and a trend.
C22_Witness ==
    /\ Forecasted
    /\ \E i, j \in 1 .. Len(district_forecast) :
          /\ Cardinality(BucketsOf(UnitsOfRow(district_forecast[i], "district"))) = 2
          /\ district_forecast[i].last_month_load = 6
          /\ Cardinality(BucketsOf(UnitsOfRow(district_forecast[j], "district"))) = 4
          /\ district_forecast[j].trend # FromInt(0)
    /\ \E i, j \in 1 .. Len(pincode_forecast) :
          /\ Cardinality(BucketsOf(UnitsOfRow(pincode_forecast[i], "pincode"))) = 1
          /\ pincode_forecast[i].last_month_load = 4
          /\ Cardinality(BucketsOf(UnitsOfRow(pincode_forecast[j], "pincode"))) = 4
          /\ pincode_forecast[j].trend # FromInt(0)

\* C29: the trend of every district-level and pincode-level unit is at
\* least -1, so forecast_load >= 0.7 x last_month_load >= 0.
C29_ForecastNotNegative ==
    Forecasted =>
        \A frame \in {district_forecast, pincode_forecast} :
            \A i \in 1 .. Len(frame) :
                /\ RGe(frame[i].trend, FromInt(-1))
                /\ frame[i].last_month_load >= 0
                /\ RGe(frame[i].forecast_load,
                       RMul(Rat(7, 10), FromInt(frame[i].last_month_load)))
                /\ RGe(frame[i].forecast_load, FromInt(0))

\* A district and a pincode with a negative trend and a last month with
\* activity, forecast below the last month.
C29_Witness ==
    /\ Forecasted
    /\ \A frame \in {district_forecast, pincode_forecast} :
          \E i \in 1 .. Len(frame) :
              /\ RLt(frame[i].trend, FromInt(0))
              /\ frame[i].last_month_load > 0
              /\ RLt(frame[i].forecast_load, FromInt(frame[i].last_month_load))

\* C24: within a single recommendation no alternative unit appears more than
\* once, also when the list is filled by both passes.
C24_NoRepeatedAlternative ==
    Recommended =>
        \A r \in 1 .. Len(recommendations) :
            LET alts == recommendations[r].alternatives
            IN  \A i, j \in 1 .. Len(alts) :
                    (/\ alts[i].alt_pincode = alts[j].alt_pincode
                     /\ alts[i].alt_district = alts[j].alt_district) => i = j

\* C25: no unit suggested as an alternative is itself flagged is_overloaded:
\* its spare capacity is above 0.3, so its load percentile is below 0.7 and
\* its load score is not 0.9 or more.
C25_AlternativesNotOverloaded ==
    Recommended =>
        \A r \in 1 .. Len(recommendations) :
            \A a \in 1 .. Len(recommendations[r].alternatives) :
                LET row == rec_load_scores[RowOf(recommendations[r].alternatives[a])]
                IN  /\ ~row.is_overloaded
                    /\ RGt(row.spare_capacity, Rat(3, 10))
                    /\ RLt(row.load_percentile, Rat(7, 10))
                    /\ ~ScoreGe(row.load_score, Rat(9, 10))

\* An alternative taken by Pass 2 alone (spare capacity between 0.3 and 0.5)
\* in the 'Medium' load category has been recommended.
C25_Witness ==
    /\ Recommended
    /\ \E r \in 1 .. Len(recommendations) :
           \E a \in 1 .. Len(recommendations[r].alternatives) :
               LET row == rec_load_scores[RowOf(recommendations[r].alternatives[a])]
               IN  /\ RLe(row.spare_capacity, Rat(1, 2))
                   /\ row.load_category = "Medium"

(* -------------------- further claims about the waves ------------------ *)

\* The periods after a wave's start at which its state has a high-MSI
\* district.
LaterPeriods(w) == {t \in HighPeriods(w.state) : t > w.start_time}

\* C30: every wave has its peak_time strictly later than its start_time, a
\* duration from 2 to min_duration + 2 and a peak_count of at most
\* total_affected, and no wave starts at one of the last min_duration
\* periods in which its state has a high-MSI record.
C30_WaveShape ==
    WavesDetected =>
        \A i \in 1 .. Len(wave_patterns) :
            LET w == wave_patterns[i]
            IN  /\ w.peak_time > w.start_time
                /\ 2 <= w.duration
                /\ w.duration <= ecall.min_duration + 2
                /\ w.peak_count <= w.total_affected
                /\ w.start_time \in HighPeriods(w.state)
                /\ Cardinality(LaterPeriods(w)) >= ecall.min_duration

\* A wave of duration 2 that starts at the last period allowed, a wave of
\* duration min_duration + 2, a wave whose peak holds every affected
\* district and a wave whose peak holds fewer.
C30_Witness ==
    /\ WavesDetected
    /\ \E i \in 1 .. Len(wave_patterns) :
          /\ wave_patterns[i].duration = 2
          /\ Cardinality(LaterPeriods(wave_patterns[i])) = ecall.min_duration
    /\ \E i \in 1 .. Len(wave_patterns) :
          wave_patterns[i].duration = ecall.min_duration + 2
    /\ \E i \in 1 .. Len(wave_patterns) :
          wave_patterns[i].peak_count = wave_patterns[i].total_affected
    /\ \E i \in 1 .. Len(wave_patterns) :
          wave_patterns[i].peak_count < wave_patterns[i].total_affected

(* ---------------- claims about stages called in any order ------------- *)

\* A rational that is the number 0.
IsZero(x) == REq(x, FromInt(0))

\* C26: a stage called before the stage it depends on raises and leaves its
\* output attribute unset: calculate_load_scores before forecast_next_month
\* (load_scores), forecast_next_month before load_data (pincode_forecast)
\* and compute_msi before compute_temporal_changes (msi_results);
\* simulate_load_balancing before find_alternatives does not raise and
\* yields scenarios whose loads and peak_reduction_pct are all 0.
C26_StagesDependOnPriorStages ==
    /\ (call.op = "calculate_load_scores" /\ "forecast_next_month" \notin pc)
          => (call.raised # None /\ load_scores = None)
    /\ (call.op = "forecast_next_month" /\ "load_data" \notin pc)
          => (call.raised # None /\ pincode_forecast = None)
    /\ (ecall.op = "compute_msi" /\ "compute_temporal_changes" \notin epc)
          => (ecall.raised # None /\ msi_results = None)
    /\ (call.op = "simulate_load_balancing" /\ "find_alternatives" \notin pc)
          => /\ call.raised = None
             /\ Len(simulation_results) = Len(call.redirect_percentages)
             /\ \A i \in 1 .. Len(simulation_results) :
                   /\ IsZero(simulation_results[i].original_peak_load)
                   /\ IsZero(simulation_results[i].new_peak_load)
                   /\ IsZero(simulation_results[i].total_redirected)
                   /\ IsZero(simulation_results[i].peak_reduction_pct)

\* simulate_load_balancing with the default percentages has returned on a
\* recommender that has overloaded rows in its load scores and on which
\* find_alternatives has not been called.
C26_Witness ==
    /\ call.op = "simulate_load_balancing"
    /\ "find_alternatives" \notin pc
    /\ Len(call.redirect_percentages) = 5
    /\ \E i \in 1 .. Len(rec_load_scores) : rec_load_scores[i].is_overloaded

\* C28: re-running a stage replaces its output: whatever was called before,
\* after find_alternatives, simulate_load_balancing and compute_msi the
\* attributes recommendations, simulation_results and msi_results are what
\* the call gives on an object that holds no earlier result, so a second
\* call with the same arguments leaves what the first left.
C28_RerunReplaces ==
    /\ call.op = "find_alternatives" =>
          /\ recommendations = Recommendations(rec_load_scores, call.top_n_overloaded,
                                               call.alternatives_per_pincode)
          /\ Len(recommendations) <= call.top_n_overloaded
    /\ call.op = "simulate_load_balancing" =>
          /\ simulation_results = Simulations(recommendations, call.redirect_percentages)
          /\ Len(simulation_results) = Len(call.redirect_percentages)
    /\ (ecall.op = "compute_msi" /\ ecall.raised = None) =>
          /\ msi_results = MsiRecords(district_neighbors, temporal_changes,
                                      temporal_zscores, temporal_pivot,
                                      ecall.window_size)
          /\ \A i, j \in 1 .. Len(msi_results) :
                (/\ msi_results[i].geo_key = msi_results[j].geo_key
                 /\ msi_results[i].time_period = msi_results[j].time_period) => i = j

\* find_alternatives has returned recommendations on a recommender whose
\* simulation_results were computed from other, non-empty recommendations
\* of an earlier call.
C28_Witness ==
    /\ call.op = "find_alternatives"
    /\ "simulate_load_balancing" \in pc
    /\ recommendations # << >>
    /\ RGt(simulation_results[1].original_peak_load, FromInt(0))
    /\ ~REq(simulation_results[1].original_peak_load,
            SumRats([i \in 1 .. Len(recommendations) |->
                        recommendations[i].forecast_load]))

\* The districts of the data in the state of a district, the district
\* itself left out.
OtherDistricts(state, district) ==
    {data[i].district : i \in {j \in 1 .. Len(data) : data[j].state = state}}
        \ {district}

\* compute_msi has nothing to record: the district graph was not built, no
\* district of the data has two other districts in its state, or the data
\* has at most window_size periods.
NothingToRecord ==
    \/ "district" \notin epc
    \/ \A i \in 1 .. Len(data) :
          Cardinality(OtherDistricts(data[i].state, data[i].district)) < 2
    \/ Cardinality({data[i].year_week : i \in 1 .. Len(data)}) <= ecall.window_size

\* C27: when compute_msi has no record to give, msi_results is an empty
\* table without columns, and a following detect_wave_patterns or
\* get_redistribution_hotspots raises an error instead of returning an empty
\* result.
C27_EmptyResultsRaise ==
    /\ (ecall.op = "compute_msi" /\ ecall.raised = None /\ NothingToRecord)
          => msi_results = << >>
    /\ (/\ ecall.op \in {"detect_wave_patterns", "get_redistribution_hotspots"}
        /\ "compute_msi" \in epc
        /\ msi_results = << >>)
          => ecall.raised = "KeyError"

\* get_redistribution_hotspots has raised on an engine with the district
\* graph built, four periods and a window below that, whose data has no
\* district with two others in its state, and detect_wave_patterns has not
\* returned on it either.
C27_Witness ==
    /\ ecall = Raised("get_redistribution_hotspots", "KeyError")
    /\ {"district", "compute_temporal_changes", "compute_msi"} \subseteq epc
    /\ "detect_wave_patterns" \notin epc
    /\ Cardinality({data[i].year_week : i \in 1 .. Len(data)}) = 4
    /\ msi_results = << >>

(* ------------------------- claims about two runs ---------------------- *)

\* C23: two runs on identical input give identical outputs, the order of the
\* lists included: the pincode graph this run has built is the graph every
\* run on the same data builds, each neighbor list in the same order.
C23_RunsAgree ==
    DOMAIN pincode_neighbors # {} =>
        \A other \in PincodeNeighbors(data) : other = pincode_neighbors

====
